---- MODULE Spec2Model ----
(***************************************************************************)
(* LegacyLink (familyLink): the kinship resolver of utils/kinshipMapping   *)
(* and the generational layout of components/RelationshipMapper, as state  *)
(* machines over a roster of FamilyMember records.                         *)
(***************************************************************************)
EXTENDS Integers, Sequences, FiniteSets, TLC

VARIABLES family, members, op, person, relativeTo, label, allRels,
          focusMember, nodes, connections, treeNodes, treeConnections,
          run, storage, route, alert, clock, tasks, submitted

vars == <<family, members, op, person, relativeTo, label, allRels,
          focusMember, nodes, connections, treeNodes, treeConnections,
          run, storage, route, alert, clock, tasks, submitted>>

\* the layout routine that is running, with its local variables
runVars == <<run>>

\* AsyncStorage, the router, the last Alert, Date.now(), the calls of
\* handleRelationshipUpdate in flight, and the members submitted to the
\* current tree (kept for the properties only)
appVars == <<storage, route, alert, clock, tasks, submitted>>

\* what the resolver and a layout routine called as a whole never touch
sysVars == <<runVars, appVars>>

\* what the screens' handlers never touch
libVars == <<family, person, relativeTo, label, allRels, focusMember, nodes, connections,
             treeNodes, treeConnections, run>>

\* what a getRelationshipLabel / getAllRelationships call leaves behind
kinVars == <<person, relativeTo, label, allRels>>

\* props and state of RelationshipMapper
mapVars == <<focusMember, nodes, connections>>

\* the result of TreeLayoutService.generateTreeLayout
treeVars == <<treeNodes, treeConnections>>

(***************************************************************************)
(* Bounds of the model.                                                    *)
(***************************************************************************)
\* members of the family a roster is drawn from (ids 1..NumMembers)
NumMembers == 4
\* relationship-list entries of a roster whose lists are filled one entry at
\* a time, each entry on its own
MaxEntries == 4
\* relations (parent/child, sibling, spouse pairs) of a roster whose lists
\* are filled in pairs, both endpoints at once
MaxEdges == 3

(***************************************************************************)
(* Data model: types/FamilyMember.ts                                       *)
(***************************************************************************)
Ids == 1..NumMembers

Genders == <<"male", "female", "other">>

GenderOf(id) == Genders[((id - 1) % 3) + 1]

Kinds == {"parents", "siblings", "spouses", "children"}

FamilyMember(id, gender, parents, siblings, spouses, children) ==
  [id |-> id, gender |-> gender,
   relationships |-> [parents |-> parents, siblings |-> siblings,
                      spouses |-> spouses, children |-> children]]

\* the value of memberMap.get / members.find for an id no member carries
Undefined == FamilyMember(0, "undefined", <<>>, <<>>, <<>>, <<>>)

RelationshipLabel(relationship, description) ==
  [relationship |-> relationship, description |-> description]

\* a TypeError raised by reading a property of undefined
Thrown == RelationshipLabel("TypeError", "TypeError")

\* the null of getExtendedRelationship / getInLawRelationship
Null == RelationshipLabel("null", "null")

(***************************************************************************)
(* Array and Map primitives of the code                                    *)
(***************************************************************************)
\* Array.prototype.includes
Includes(list, x) == \E i \in 1..Len(list) : list[i] = x

Max(S) == CHOOSE x \in S : \A y \in S : y <= x

Min(S) == CHOOSE x \in S : \A y \in S : x <= y

\* new Map(allMembers.map(m => [m.id, m])).get(id): a later entry with the
\* same key replaces an earlier one
MapGet(allMembers, id) ==
  LET at == {i \in 1..Len(allMembers) : allMembers[i].id = id}
  IN  IF at = {} THEN Undefined ELSE allMembers[Max(at)]

\* members.find(m => m.id === id): the first entry with that id
Find(allMembers, id) ==
  LET at == {i \in 1..Len(allMembers) : allMembers[i].id = id}
  IN  IF at = {} THEN Undefined ELSE allMembers[Min(at)]

\* the ternary without its neutral branch
GenderedNoNeutral(p, m, f, o) ==
  IF p.gender = "male" THEN m ELSE f

\* person.gender === 'male' ? m : person.gender === 'female' ? f : o
Gendered(p, m, f, o) ==
  IF p.gender = "male" THEN m ELSE IF p.gender = "female" THEN f ELSE o

(***************************************************************************)
(* utils/kinshipMapping.ts                                                 *)
(***************************************************************************)
\* One pass of a for-of loop whose body either returns or goes on: outcome[i]
\* is "hit", "miss" or "throw" for the i-th element; the loop ends at the
\* first element that is not a miss.
LoopExit(outcome) ==
  LET stop == {i \in 1..Len(outcome) : outcome[i] # "miss"}
  IN  IF stop = {} THEN "miss" ELSE outcome[Min(stop)]

\* the test with the guard forgotten: reading .relationships of undefined
ViaMemberUnguarded(m, kind, p) ==
  IF m = Undefined THEN "throw"
  ELSE IF Includes(m.relationships[kind], p.id) THEN "hit" ELSE "miss"

\* the guarded test `m && m.relationships[kind].includes(person.id)`
ViaMember(m, kind, p) ==
  IF m # Undefined /\ Includes(m.relationships[kind], p.id) THEN "hit" ELSE "miss"

\* for (const id of list) { const m = memberMap.get(id); if (m && m.<kind>.includes(person.id)) return ... }
OneHop(p, list, kind, allMembers) ==
  LoopExit([i \in 1..Len(list) |-> ViaMember(MapGet(allMembers, list[i]), kind, p)])

\* the cousin loop looking into the parents list of the parent's sibling
CousinLoopWrongList(p, r, allMembers) ==
  LoopExit([i \in 1..Len(r.relationships.parents) |->
     LET parent == MapGet(allMembers, r.relationships.parents[i])
     IN  IF parent # Undefined
         THEN OneHop(p, parent.relationships.siblings, "parents", allMembers)
         ELSE "miss"])

\* the cousin loop: for each parent, for each sibling of that parent
CousinLoop(p, r, allMembers) ==
  LoopExit([i \in 1..Len(r.relationships.parents) |->
     LET parent == MapGet(allMembers, r.relationships.parents[i])
     IN  IF parent # Undefined
         THEN OneHop(p, parent.relationships.siblings, "children", allMembers)
         ELSE "miss"])

\* the spouse loop body without its spouse's-sibling test
SpouseStepParentsOnly(p, spouseId, allMembers) ==
  LET spouse == MapGet(allMembers, spouseId)
  IN  IF spouse = Undefined THEN Null
      ELSE IF Includes(spouse.relationships.parents, p.id)
      THEN RelationshipLabel(Gendered(p, "Father-in-law", "Mother-in-law", "Parent-in-law"),
                             "Spouse's parent")
      ELSE Null

\* the spouse loop body with its two tests in the other order
SpouseStepSiblingFirst(p, spouseId, allMembers) ==
  LET spouse == MapGet(allMembers, spouseId)
  IN  IF spouse = Undefined THEN Null
      ELSE IF Includes(spouse.relationships.siblings, p.id)
      THEN RelationshipLabel(Gendered(p, "Brother-in-law", "Sister-in-law", "Sibling-in-law"),
                             "Spouse's sibling")
      ELSE IF Includes(spouse.relationships.parents, p.id)
      THEN RelationshipLabel(Gendered(p, "Father-in-law", "Mother-in-law", "Parent-in-law"),
                             "Spouse's parent")
      ELSE Null

\* the body of the spouse loop of getInLawRelationship for one spouse id
SpouseStep(p, spouseId, allMembers) ==
  LET spouse == MapGet(allMembers, spouseId)
  IN  IF spouse = Undefined THEN Null
      ELSE IF Includes(spouse.relationships.parents, p.id)
      THEN RelationshipLabel(Gendered(p, "Father-in-law", "Mother-in-law", "Parent-in-law"),
                             "Spouse's parent")
      ELSE IF Includes(spouse.relationships.siblings, p.id)
      THEN RelationshipLabel(Gendered(p, "Brother-in-law", "Sister-in-law", "Sibling-in-law"),
                             "Spouse's sibling")
      ELSE Null

getInLawRelationship(p, r, allMembers) ==
  LET spouses == r.relationships.spouses
      found == {i \in 1..Len(spouses) : SpouseStep(p, spouses[i], allMembers) # Null}
      bySibling == OneHop(p, r.relationships.siblings, "spouses", allMembers)
  IN  IF found # {} THEN SpouseStep(p, spouses[Min(found)], allMembers)
      ELSE IF bySibling = "throw" THEN Thrown
      ELSE IF bySibling = "hit"
      THEN RelationshipLabel(Gendered(p, "Brother-in-law", "Sister-in-law", "Sibling-in-law"),
                             "Sibling's spouse")
      ELSE Null

\* the grandchild loop copied from the grandparent loop, its list left unchanged
getExtendedRelationshipCopied(p, r, allMembers) ==
  LET rel == r.relationships
      grandparent == OneHop(p, rel.parents, "parents", allMembers)
      grandchild == OneHop(p, rel.parents, "children", allMembers)
      auntUncle == OneHop(p, rel.parents, "siblings", allMembers)
      nephewNiece == OneHop(p, rel.siblings, "children", allMembers)
      cousin == CousinLoop(p, r, allMembers)
  IN  IF grandparent = "throw" THEN Thrown
      ELSE IF grandparent = "hit"
      THEN RelationshipLabel(Gendered(p, "Grandfather", "Grandmother", "Grandparent"), "Grandparent")
      ELSE IF grandchild = "throw" THEN Thrown
      ELSE IF grandchild = "hit"
      THEN RelationshipLabel(Gendered(p, "Grandson", "Granddaughter", "Grandchild"), "Grandchild")
      ELSE IF auntUncle = "throw" THEN Thrown
      ELSE IF auntUncle = "hit"
      THEN RelationshipLabel(Gendered(p, "Uncle", "Aunt", "Aunt/Uncle"), "Parent's sibling")
      ELSE IF nephewNiece = "throw" THEN Thrown
      ELSE IF nephewNiece = "hit"
      THEN RelationshipLabel(Gendered(p, "Nephew", "Niece", "Nephew/Niece"), "Sibling's child")
      ELSE IF cousin = "throw" THEN Thrown
      ELSE IF cousin = "hit"
      THEN RelationshipLabel("Cousin", "Parent's sibling's child")
      ELSE getInLawRelationship(p, r, allMembers)

\* the nephew/niece loop looking into the parents list of the sibling
getExtendedRelationshipSiblingsParent(p, r, allMembers) ==
  LET rel == r.relationships
      grandparent == OneHop(p, rel.parents, "parents", allMembers)
      grandchild == OneHop(p, rel.children, "children", allMembers)
      auntUncle == OneHop(p, rel.parents, "siblings", allMembers)
      nephewNiece == OneHop(p, rel.siblings, "parents", allMembers)
      cousin == CousinLoop(p, r, allMembers)
  IN  IF grandparent = "throw" THEN Thrown
      ELSE IF grandparent = "hit"
      THEN RelationshipLabel(Gendered(p, "Grandfather", "Grandmother", "Grandparent"), "Grandparent")
      ELSE IF grandchild = "throw" THEN Thrown
      ELSE IF grandchild = "hit"
      THEN RelationshipLabel(Gendered(p, "Grandson", "Granddaughter", "Grandchild"), "Grandchild")
      ELSE IF auntUncle = "throw" THEN Thrown
      ELSE IF auntUncle = "hit"
      THEN RelationshipLabel(Gendered(p, "Uncle", "Aunt", "Aunt/Uncle"), "Parent's sibling")
      ELSE IF nephewNiece = "throw" THEN Thrown
      ELSE IF nephewNiece = "hit"
      THEN RelationshipLabel(Gendered(p, "Nephew", "Niece", "Nephew/Niece"), "Sibling's child")
      ELSE IF cousin = "throw" THEN Thrown
      ELSE IF cousin = "hit"
      THEN RelationshipLabel("Cousin", "Parent's sibling's child")
      ELSE getInLawRelationship(p, r, allMembers)

getExtendedRelationship(p, r, allMembers) ==
  LET rel == r.relationships
      grandparent == OneHop(p, rel.parents, "parents", allMembers)
      grandchild == OneHop(p, rel.children, "children", allMembers)
      auntUncle == OneHop(p, rel.parents, "siblings", allMembers)
      nephewNiece == OneHop(p, rel.siblings, "children", allMembers)
      cousin == CousinLoop(p, r, allMembers)
  IN  IF grandparent = "throw" THEN Thrown
      ELSE IF grandparent = "hit"
      THEN RelationshipLabel(Gendered(p, "Grandfather", "Grandmother", "Grandparent"), "Grandparent")
      ELSE IF grandchild = "throw" THEN Thrown
      ELSE IF grandchild = "hit"
      THEN RelationshipLabel(Gendered(p, "Grandson", "Granddaughter", "Grandchild"), "Grandchild")
      ELSE IF auntUncle = "throw" THEN Thrown
      ELSE IF auntUncle = "hit"
      THEN RelationshipLabel(Gendered(p, "Uncle", "Aunt", "Aunt/Uncle"), "Parent's sibling")
      ELSE IF nephewNiece = "throw" THEN Thrown
      ELSE IF nephewNiece = "hit"
      THEN RelationshipLabel(Gendered(p, "Nephew", "Niece", "Nephew/Niece"), "Sibling's child")
      ELSE IF cousin = "throw" THEN Thrown
      ELSE IF cousin = "hit"
      THEN RelationshipLabel("Cousin", "Parent's sibling's child")
      ELSE getInLawRelationship(p, r, allMembers)

\* the resolver with the direction of the parent and child tests confused
getRelationshipLabelReversed(p, r, allMembers) ==
  LET rel == r.relationships
      extendedRelationship == getExtendedRelationship(p, r, allMembers)
  IN  IF Includes(rel.children, p.id)
      THEN RelationshipLabel(Gendered(p, "Father", "Mother", "Parent"), "Parent")
      ELSE IF Includes(rel.parents, p.id)
      THEN RelationshipLabel(Gendered(p, "Son", "Daughter", "Child"), "Child")
      ELSE IF Includes(rel.spouses, p.id)
      THEN RelationshipLabel(Gendered(p, "Husband", "Wife", "Spouse"), "Spouse")
      ELSE IF Includes(rel.siblings, p.id)
      THEN RelationshipLabel(Gendered(p, "Brother", "Sister", "Sibling"), "Sibling")
      ELSE IF extendedRelationship # Null THEN extendedRelationship
      ELSE RelationshipLabel("Family Member", "Related")

getRelationshipLabel(p, r, allMembers) ==
  LET rel == r.relationships
      extendedRelationship == getExtendedRelationship(p, r, allMembers)
  IN  IF Includes(rel.parents, p.id)
      THEN RelationshipLabel(Gendered(p, "Father", "Mother", "Parent"), "Parent")
      ELSE IF Includes(rel.children, p.id)
      THEN RelationshipLabel(Gendered(p, "Son", "Daughter", "Child"), "Child")
      ELSE IF Includes(rel.spouses, p.id)
      THEN RelationshipLabel(Gendered(p, "Husband", "Wife", "Spouse"), "Spouse")
      ELSE IF Includes(rel.siblings, p.id)
      THEN RelationshipLabel(Gendered(p, "Brother", "Sister", "Sibling"), "Sibling")
      ELSE IF extendedRelationship # Null THEN extendedRelationship
      ELSE RelationshipLabel("Family Member", "Related")

\* the batch with the resolver's first two arguments exchanged
getAllRelationshipsExchanged(p, allMembers) ==
  LET kept == SelectSeq(allMembers, LAMBDA m : m.id # p.id)
  IN  [k \in 1..Len(kept) |->
         [member |-> kept[k],
          relationship |-> getRelationshipLabel(p, kept[k], allMembers)]]

\* allMembers.filter(member => member.id !== person.id).map(member => ({member, relationship}))
getAllRelationships(p, allMembers) ==
  LET kept == SelectSeq(allMembers, LAMBDA m : m.id # p.id)
  IN  [k \in 1..Len(kept) |->
         [member |-> kept[k],
          relationship |-> getRelationshipLabel(kept[k], p, allMembers)]]

(***************************************************************************)
(* components/RelationshipMapper.tsx: generateRelationshipMap              *)
(***************************************************************************)
LEVEL_HEIGHT == 120

NODE_SPACING == 80

\* the traversal state: the visited set of one top-level assignGeneration call,
\* the memberGenerations map and the generations map (generation -> row)
EmptyMaps == [visited |-> {}, memberGenerations |-> <<>>, generations |-> <<>>]

\* Map.prototype.set
MapSet(map, key, value) == (key :> value) @@ map

\* the relatives assignGeneration recurses into, in the order of its four
\* forEach loops, each with the generation proposed for it
Proposals(member, generation) ==
  LET rel == member.relationships
  IN  [i \in 1..Len(rel.parents) |-> [id |-> rel.parents[i], generation |-> generation + 1]] \o
      [i \in 1..Len(rel.children) |-> [id |-> rel.children[i], generation |-> generation - 1]] \o
      [i \in 1..Len(rel.siblings) |-> [id |-> rel.siblings[i], generation |-> generation]] \o
      [i \in 1..Len(rel.spouses) |-> [id |-> rel.spouses[i], generation |-> generation]]

RECURSIVE assignGeneration(_, _, _, _)
RECURSIVE AssignRelatives(_, _, _, _)

\* const x = members.find(m => m.id === id); if (x) assignGeneration(x, g, visited)
AssignRelatives(todo, i, maps, allMembers) ==
  IF i > Len(todo) THEN maps
  ELSE LET relative == Find(allMembers, todo[i].id)
           after == IF relative # Undefined
                    THEN assignGeneration(relative, todo[i].generation, maps, allMembers)
                    ELSE maps
       IN  AssignRelatives(todo, i + 1, after, allMembers)

assignGeneration(member, generation, maps, allMembers) ==
  IF member.id \in maps.visited THEN maps
  ELSE LET mg == maps.memberGenerations
           currentGen == IF member.id \in DOMAIN mg THEN mg[member.id] ELSE generation
           gens == maps.generations
           genMembers == IF generation \in DOMAIN gens THEN gens[generation] ELSE <<>>
           pushed == IF \E k \in 1..Len(genMembers) : genMembers[k].id = member.id
                     THEN genMembers ELSE Append(genMembers, member)
           entered == [visited |-> maps.visited \cup {member.id},
                       memberGenerations |->
                         MapSet(mg, member.id,
                                IF currentGen >= generation THEN currentGen ELSE generation),
                       generations |-> MapSet(gens, generation, pushed)]
       IN  AssignRelatives(Proposals(member, generation), 1, entered, allMembers)

\* members.forEach(member => { if (!memberGenerations.has(member.id)) assignGeneration(member, 0) })
RECURSIVE AddRemaining(_, _, _)
AddRemaining(i, maps, allMembers) ==
  IF i > Len(allMembers) THEN maps
  ELSE LET member == allMembers[i]
           after == IF member.id \notin DOMAIN maps.memberGenerations
                    THEN assignGeneration(member, 0, [maps EXCEPT !.visited = {}], allMembers)
                    ELSE maps
       IN  AddRemaining(i + 1, after, allMembers)

\* the maps without the loop over the remaining members
GenerationMapsSeedOnly(allMembers, focus) ==
  assignGeneration(focus, 0, EmptyMaps, allMembers)

\* the maps after `assignGeneration(focus, 0)` and the loop over the remaining members
GenerationMaps(allMembers, focus) ==
  AddRemaining(1, assignGeneration(focus, 0, EmptyMaps, allMembers), allMembers)

\* Array.from(generations.keys()).sort((a, b) => b - a)
RECURSIVE SortDescending(_)
SortDescending(S) == IF S = {} THEN <<>> ELSE <<Max(S)>> \o SortDescending(S \ {Max(S)})

\* the nodes of one generation row; x is measured from centerX
RowNodes(genMembers, generation, levelIndex) ==
  [k \in 1..Len(genMembers) |->
     [id |-> genMembers[k].id, member |-> genMembers[k],
      x |-> (k - 1) * NODE_SPACING + NODE_SPACING \div 2
            - (Len(genMembers) * NODE_SPACING) \div 2,
      y |-> levelIndex * LEVEL_HEIGHT + 50,
      level |-> levelIndex, generation |-> generation]]

RECURSIVE LayoutRows(_, _, _)
LayoutRows(sortedGenerations, i, generations) ==
  IF i > Len(sortedGenerations) THEN <<>>
  ELSE RowNodes(generations[sortedGenerations[i]], sortedGenerations[i], i - 1) \o
       LayoutRows(sortedGenerations, i + 1, generations)

GeneratedNodes(allMembers, focus) ==
  LET generations == GenerationMaps(allMembers, focus).generations
  IN  LayoutRows(SortDescending(DOMAIN generations), 1, generations)

\* the connections one node proposes, in the order of its three forEach loops
NodeProposals(node) ==
  LET rel == node.member.relationships
      id == node.member.id
  IN  [i \in 1..Len(rel.parents) |->
         [from |-> rel.parents[i], to |-> id, type |-> "parent", label |-> "Parent",
          other |-> rel.parents[i]]] \o
      [i \in 1..Len(rel.spouses) |->
         [from |-> id, to |-> rel.spouses[i], type |-> "spouse", label |-> "Spouse",
          other |-> rel.spouses[i]]] \o
      [i \in 1..Len(rel.siblings) |->
         [from |-> id, to |-> rel.siblings[i], type |-> "sibling", label |-> "Sibling",
          other |-> rel.siblings[i]]]

RECURSIVE AllProposals(_, _)
AllProposals(generatedNodes, i) ==
  IF i > Len(generatedNodes) THEN <<>>
  ELSE NodeProposals(generatedNodes[i]) \o AllProposals(generatedNodes, i + 1)

Connection(c) == [from |-> c.from, to |-> c.to, type |-> c.type, label |-> c.label]

\* generatedConnections.find(c => (c.from === a && c.to === b) || (c.from === b && c.to === a))
Connected(generatedConnections, a, b) ==
  \E k \in 1..Len(generatedConnections) :
    \/ generatedConnections[k].from = a /\ generatedConnections[k].to = b
    \/ generatedConnections[k].from = b /\ generatedConnections[k].to = a

RECURSIVE PushConnections(_, _, _, _)
PushConnections(todo, i, generatedConnections, generatedNodes) ==
  IF i > Len(todo) THEN generatedConnections
  ELSE LET c == todo[i]
           hasNode == \E k \in 1..Len(generatedNodes) : generatedNodes[k].id = c.other
           push == /\ hasNode
                   /\ \/ c.type = "parent"
                      \/ ~Connected(generatedConnections, c.from, c.to)
       IN  PushConnections(todo, i + 1,
                           IF push THEN Append(generatedConnections, Connection(c))
                           ELSE generatedConnections,
                           generatedNodes)

GeneratedConnections(generatedNodes) ==
  PushConnections(AllProposals(generatedNodes, 1), 1, <<>>, generatedNodes)

(***************************************************************************)
(* utils/treeLayout: TreeLayoutService.generateTreeLayout                  *)
(***************************************************************************)
nodeWidth == 120

nodeHeight == 160

horizontalSpacing == 40

verticalSpacing == 80

\* the filter without the visited test
ValidMembersRevisit(memberIds, visited, allMembers) ==
  SelectSeq([k \in 1..Len(memberIds) |-> Find(allMembers, memberIds[k])],
            LAMBDA m : m # Undefined)

\* memberIds.map(id => members.find(m => m.id === id))
\*          .filter(m => m !== undefined && !visited.has(m.id))
ValidMembers(memberIds, visited, allMembers) ==
  SelectSeq([k \in 1..Len(memberIds) |-> Find(allMembers, memberIds[k])],
            LAMBDA m : m # Undefined /\ m.id \notin visited)

\* the nodes processGeneration pushes for one generation
GenerationNodes(validMembers, generation) ==
  LET totalWidth == Len(validMembers) * nodeWidth + (Len(validMembers) - 1) * horizontalSpacing
  IN  [k \in 1..Len(validMembers) |->
         [id |-> validMembers[k].id, member |-> validMembers[k],
          x |-> (k - 1) * (nodeWidth + horizontalSpacing) + nodeWidth \div 2 - totalWidth \div 2,
          y |-> 50 + generation * (nodeHeight + verticalSpacing),
          generation |-> generation]]

\* validMembers.flatMap(member => member.relationships.children)
RECURSIVE FlatChildren(_, _)
FlatChildren(validMembers, k) ==
  IF k > Len(validMembers) THEN <<>>
  ELSE validMembers[k].relationships.children \o FlatChildren(validMembers, k + 1)

\* while (currentGeneration.length > 0) { processGeneration(...); generation++ }
RECURSIVE ProcessGenerations(_, _, _, _, _)
ProcessGenerations(currentGeneration, generation, visited, pushed, allMembers) ==
  IF Len(currentGeneration) = 0 THEN pushed
  ELSE LET validMembers == ValidMembers(currentGeneration, visited, allMembers)
       IN  IF Len(validMembers) = 0 THEN pushed
           ELSE ProcessGenerations(
                  FlatChildren(validMembers, 1), generation + 1,
                  visited \cup {validMembers[k].id : k \in 1..Len(validMembers)},
                  pushed \o GenerationNodes(validMembers, generation), allMembers)

\* the connections one member contributes
MemberConnections(member) ==
  LET rel == member.relationships
      smaller == SelectSeq(rel.spouses, LAMBDA spouseId : member.id < spouseId)
  IN  [k \in 1..Len(rel.children) |->
         [from |-> member.id, to |-> rel.children[k], type |-> "parent"]] \o
      [k \in 1..Len(smaller) |->
         [from |-> member.id, to |-> smaller[k], type |-> "spouse"]]

RECURSIVE TreeConnections(_, _)
TreeConnections(allMembers, i) ==
  IF i > Len(allMembers) THEN <<>>
  ELSE MemberConnections(allMembers[i]) \o TreeConnections(allMembers, i + 1)

\* the layout with every member taken as a root
generateTreeLayoutAllRoots(allMembers) ==
  IF Len(allMembers) = 0 THEN [nodes |-> <<>>, connections |-> <<>>]
  ELSE [nodes |-> ProcessGenerations([k \in 1..Len(allMembers) |-> allMembers[k].id], 0, {},
                                     <<>>, allMembers),
        connections |-> TreeConnections(allMembers, 1)]

generateTreeLayout(allMembers) ==
  IF Len(allMembers) = 0 THEN [nodes |-> <<>>, connections |-> <<>>]
  ELSE LET rootMembers == SelectSeq(allMembers, LAMBDA m : Len(m.relationships.parents) = 0)
           roots == IF Len(rootMembers) > 0 THEN rootMembers ELSE <<allMembers[1]>>
       IN  [nodes |-> ProcessGenerations([k \in 1..Len(roots) |-> roots[k].id], 0, {}, <<>>,
                                         allMembers),
            connections |-> TreeConnections(allMembers, 1)]

(***************************************************************************)
(* Rosters.  A roster is built from a set of list entries <<o, kind, t>>,  *)
(* "member o lists t in its <kind> list"; a list holds its entries in      *)
(* ascending or in descending id order.                                    *)
(***************************************************************************)
RECURSIVE SubsetsUpTo(_, _)
SubsetsUpTo(S, k) ==
  IF k = 0 THEN {{}}
  ELSE LET smaller == SubsetsUpTo(S, k - 1)
       IN  smaller \cup {T \cup {e} : T \in smaller, e \in S}

RECURSIVE Ascending(_)
Ascending(S) == IF S = {} THEN <<>> ELSE <<Min(S)>> \o Ascending(S \ {Min(S)})

RECURSIVE Descending(_)
Descending(S) == IF S = {} THEN <<>> ELSE <<Max(S)>> \o Descending(S \ {Max(S)})

ListOf(E, o, kind, desc) ==
  LET targets == {t \in Ids : <<o, kind, t>> \in E}
  IN  IF desc THEN Descending(targets) ELSE Ascending(targets)

RosterOf(E, desc) ==
  [o \in Ids |->
     FamilyMember(o, GenderOf(o),
                  ListOf(E, o, "parents", desc), ListOf(E, o, "siblings", desc),
                  ListOf(E, o, "spouses", desc), ListOf(E, o, "children", desc))]

\* The single list entries that getRelationshipLabel(member 2, member 1, ..)
\* can read: member 1 listing anyone, a third member listing member 2, and
\* two third members listing each other as siblings.
LooseEntries ==
  {<<1, kind, t>> : kind \in Kinds, t \in Ids \ {1}} \cup
  {<<o, kind, 2>> : kind \in Kinds, o \in Ids \ {1, 2}} \cup
  {e \in (Ids \ {1, 2}) \X {"siblings"} \X (Ids \ {1, 2}) : e[1] # e[3]}

\* a relation recorded at both endpoints, as createConnection records it
ParentEdge(a, b) == {<<a, "children", b>>, <<b, "parents", a>>}

SiblingEdge(a, b) == {<<a, "siblings", b>>, <<b, "siblings", a>>}

SpouseEdge(a, b) == {<<a, "spouses", b>>, <<b, "spouses", a>>}

\* ordered pairs of different members
Couples == {c \in Ids \X Ids : c[1] # c[2]}

AllEdges ==
  {ParentEdge(c[1], c[2]) : c \in Couples} \cup
  {SiblingEdge(c[1], c[2]) : c \in Couples} \cup
  {SpouseEdge(c[1], c[2]) : c \in Couples}

\* rosters whose lists are filled one entry at a time (one-sided edges)
LooseRosters ==
  {RosterOf(E, desc) : E \in SubsetsUpTo(LooseEntries, MaxEntries), desc \in BOOLEAN}

\* rosters whose lists are filled in pairs
PairedRosters ==
  {RosterOf(UNION ES, desc) : ES \in SubsetsUpTo(AllEdges, MaxEdges), desc \in BOOLEAN}

\* StorageService.deleteFamilyMember: members.filter(member => member.id !== memberId)
deleteFamilyMember(allMembers, memberId) ==
  SelectSeq(allMembers, LAMBDA m : m.id # memberId)

\* AddMemberScreen.handleSubmit: [...currentTree.members, newMember] with empty lists
handleSubmit(allMembers, id, gender) ==
  Append(allMembers, FamilyMember(id, gender, <<>>, <<>>, <<>>, <<>>))

\* the rosters a family can be stored as: whole, after the delete of its last
\* member, or after a member was added under an id already in use
StoredAs(fam) ==
  {fam, deleteFamilyMember(fam, NumMembers), handleSubmit(fam, 1, "other")}

(***************************************************************************)
(* Kinship resolver: the callers hold the member objects of `family` and   *)
(* pass the stored roster `members` as allMembers.                         *)
(***************************************************************************)
\* no layout routine is running
NotRunning == [pc |-> "idle"]

\* a family tree as stored; members is its roster
FamilyTree(id, ownerId, treeMembers) == [id |-> id, ownerId |-> ownerId, members |-> treeMembers]

\* getCurrentTree() === null
NoTree == FamilyTree(0, 0, <<>>)

\* getUserData() === null
NoUser == [id |-> 0]

\* AsyncStorage with none of the keys set
EmptyStorage ==
  [FAMILY_MEMBERS |-> <<>>, USER_DATA |-> NoUser, FAMILY_TREES |-> <<>>,
   CURRENT_TREE |-> NoTree, currentUser |-> NoUser, isAuthenticated |-> FALSE]

AppInit ==
  /\ storage = EmptyStorage
  /\ route = "/"
  /\ alert = ""
  /\ clock = 1
  /\ tasks = <<>>
  /\ submitted = <<>>

SysInit == run = NotRunning /\ AppInit

NoLabel == RelationshipLabel("", "")

\* no focusMember prop
NoFocus == Undefined

Init ==
  /\ \/ family \in LooseRosters /\ members = family
     \/ family \in PairedRosters /\ members \in StoredAs(family)
  /\ op = "idle"
  /\ person = Undefined
  /\ relativeTo = Undefined
  /\ label = NoLabel
  /\ allRels = <<>>
  /\ focusMember = NoFocus
  /\ nodes = <<>>
  /\ connections = <<>>
  /\ treeNodes = <<>>
  /\ treeConnections = <<>>
  /\ SysInit

CallGetRelationshipLabel ==
  /\ op = "idle"
  /\ \E p \in 1..Len(family), r \in 1..Len(family) :
       /\ person' = family[p]
       /\ relativeTo' = family[r]
       /\ label' = getRelationshipLabel(family[p], family[r], members)
  /\ op' = "getRelationshipLabel"
  /\ UNCHANGED <<sysVars, family, members, allRels, mapVars, treeVars>>

\* the batch written with an in-place removal instead of filter
CallGetAllRelationshipsInPlace ==
  /\ op = "idle"
  /\ \E p \in 1..Len(family) :
       /\ person' = family[p]
       /\ allRels' = getAllRelationships(family[p], members)
       /\ members' = SelectSeq(members, LAMBDA m : m.id # family[p].id)
  /\ op' = "getAllRelationships"
  /\ UNCHANGED <<sysVars, family, relativeTo, label, mapVars, treeVars>>

CallGetAllRelationships ==
  /\ op = "idle"
  /\ \E p \in 1..Len(family) :
       /\ person' = family[p]
       /\ allRels' = getAllRelationships(family[p], members)
  /\ op' = "getAllRelationships"
  /\ UNCHANGED <<sysVars, family, members, relativeTo, label, mapVars, treeVars>>

\* useEffect(() => generateRelationshipMap(), [members, focusMember])
generateRelationshipMap ==
  /\ op = "idle"
  /\ \E f \in {NoFocus} \cup {family[i] : i \in 1..Len(family)} :
       /\ focusMember' = f
       /\ IF Len(members) = 0
          THEN UNCHANGED <<nodes, connections>>
          ELSE LET focus == IF f # NoFocus THEN f ELSE members[1]
                   generatedNodes == GeneratedNodes(members, focus)
               IN  /\ nodes' = generatedNodes
                   /\ connections' = GeneratedConnections(generatedNodes)
  /\ op' = "generateRelationshipMap"
  /\ UNCHANGED <<sysVars, family, members, kinVars, treeVars>>

\* const { nodes, connections } = TreeLayoutService.generateTreeLayout(members)
CallGenerateTreeLayout ==
  /\ op = "idle"
  /\ treeNodes' = generateTreeLayout(members).nodes
  /\ treeConnections' = generateTreeLayout(members).connections
  /\ op' = "generateTreeLayout"
  /\ UNCHANGED <<sysVars, family, members, kinVars, mapVars>>

\* the caller is done with the result; the screen is left
Leave ==
  /\ op # "idle"
  /\ op' = "idle"
  /\ person' = Undefined
  /\ relativeTo' = Undefined
  /\ label' = NoLabel
  /\ allRels' = <<>>
  /\ focusMember' = NoFocus
  /\ nodes' = <<>>
  /\ connections' = <<>>
  /\ treeNodes' = <<>>
  /\ treeConnections' = <<>>
  /\ UNCHANGED <<sysVars, family, members>>

NextKin == CallGetRelationshipLabel \/ CallGetAllRelationships \/ Leave

NextMap == generateRelationshipMap \/ CallGenerateTreeLayout \/ Leave

Next ==
  \/ CallGetRelationshipLabel
  \/ CallGetAllRelationships
  \/ generateRelationshipMap
  \/ CallGenerateTreeLayout
  \/ Leave

\* the kinship resolver alone
SpecKin == Init /\ [][NextKin]_vars

\* the two layout routines alone
SpecMap == Init /\ [][NextMap]_vars

\* every core call
Spec == Init /\ [][Next]_vars

(***************************************************************************)
(* The kinship rules, stated over the roster as relations                  *)
(***************************************************************************)
IdsOf(list) == {list[i] : i \in 1..Len(list)}

RosterIds(allMembers) == {allMembers[i].id : i \in 1..Len(allMembers)}

\* the ids m lists under `kind` that denote a roster member
Listed(m, kind, allMembers) == IdsOf(m.relationships[kind]) \cap RosterIds(allMembers)

\* p is listed under `second` by a roster member that r lists under `first`
TwoHops(p, r, first, second, allMembers) ==
  \E x \in Listed(r, first, allMembers) :
    p.id \in IdsOf(MapGet(allMembers, x).relationships[second])

IsCousin(p, r, allMembers) ==
  \E x \in Listed(r, "parents", allMembers) :
    \E y \in Listed(MapGet(allMembers, x), "siblings", allMembers) :
      p.id \in IdsOf(MapGet(allMembers, y).relationships.children)

Rule(description, matches) == [description |-> description, matches |-> matches]

\* the rules in the order of the claim; the two spouse rules once per spouse
\* of r, in the order of r's spouse list
RulesInOrder(p, r, allMembers) ==
  LET rel == r.relationships
      viaSpouse(i, kind) ==
        /\ rel.spouses[i] \in RosterIds(allMembers)
        /\ p.id \in IdsOf(MapGet(allMembers, rel.spouses[i]).relationships[kind])
  IN  << Rule("Parent", p.id \in IdsOf(rel.parents)),
         Rule("Child", p.id \in IdsOf(rel.children)),
         Rule("Spouse", p.id \in IdsOf(rel.spouses)),
         Rule("Sibling", p.id \in IdsOf(rel.siblings)),
         Rule("Grandparent", TwoHops(p, r, "parents", "parents", allMembers)),
         Rule("Grandchild", TwoHops(p, r, "children", "children", allMembers)),
         Rule("Parent's sibling", TwoHops(p, r, "parents", "siblings", allMembers)),
         Rule("Sibling's child", TwoHops(p, r, "siblings", "children", allMembers)),
         Rule("Parent's sibling's child", IsCousin(p, r, allMembers)) >> \o
      [k \in 1..(2 * Len(rel.spouses)) |->
         IF k % 2 = 1
         THEN Rule("Spouse's parent", viaSpouse((k + 1) \div 2, "parents"))
         ELSE Rule("Spouse's sibling", viaSpouse(k \div 2, "siblings"))] \o
      << Rule("Sibling's spouse", TwoHops(p, r, "siblings", "spouses", allMembers)) >>

Matching(rules) == {k \in 1..Len(rules) : rules[k].matches}

FirstRule(p, r, allMembers) ==
  LET rules == RulesInOrder(p, r, allMembers)
  IN  IF Matching(rules) = {} THEN "Related" ELSE rules[Min(Matching(rules))].description

Fallback == RelationshipLabel("Family Member", "Related")

\* C1: getRelationshipLabel returns the label of the first rule that matches,
\* in the fixed order Parent, Child, Spouse, Sibling, Grandparent, Grandchild,
\* Aunt/Uncle, Nephew/Niece, Cousin, per spouse (parent-in-law, sibling-in-law),
\* sibling's spouse; it returns the fallback exactly when no rule matches.
C1_FirstMatchWins ==
  op = "getRelationshipLabel" =>
    /\ label.description = FirstRule(person, relativeTo, members)
    /\ label = Fallback <=> Matching(RulesInOrder(person, relativeTo, members)) = {}

\* a call where a later spouse of relativeTo would give a different in-law
\* label than the one returned for the first matching spouse
C1_Witness ==
  /\ op = "getRelationshipLabel"
  /\ label.description = "Spouse's sibling"
  /\ \E k \in 1..Len(RulesInOrder(person, relativeTo, members)) :
       /\ RulesInOrder(person, relativeTo, members)[k].matches
       /\ RulesInOrder(person, relativeTo, members)[k].description = "Spouse's parent"

(***************************************************************************)
(* Well-formed rosters: unique ids, symmetric edges, acyclic parent edges  *)
(***************************************************************************)
UniqueIds(allMembers) ==
  \A i, j \in 1..Len(allMembers) : allMembers[i].id = allMembers[j].id => i = j

InRoster(m, allMembers) == \E i \in 1..Len(allMembers) : allMembers[i] = m

Converse(kind) ==
  IF kind = "parents" THEN "children" ELSE IF kind = "children" THEN "parents" ELSE kind

SymmetricEdges(allMembers) ==
  \A i \in 1..Len(allMembers) : \A kind \in Kinds :
    \A x \in IdsOf(allMembers[i].relationships[kind]) :
      /\ x \in RosterIds(allMembers)
      /\ allMembers[i].id \in IdsOf(MapGet(allMembers, x).relationships[Converse(kind)])

RECURSIVE Ancestors(_, _, _)
Ancestors(S, steps, allMembers) ==
  IF steps = 0 THEN S
  ELSE LET up == UNION {Listed(MapGet(allMembers, x), "parents", allMembers) :
                          x \in S \cap RosterIds(allMembers)}
       IN  Ancestors(S \cup up, steps - 1, allMembers)

Acyclic(allMembers) ==
  \A i \in 1..Len(allMembers) :
    allMembers[i].id \notin
      Ancestors(IdsOf(allMembers[i].relationships.parents), Len(allMembers), allMembers)

WellFormed(allMembers) ==
  UniqueIds(allMembers) /\ SymmetricEdges(allMembers) /\ Acyclic(allMembers)

\* C2: in a well-formed roster, if B is in A.children then the label of A
\* relative to B is a Parent label and the label of B relative to A is a
\* Child label.
C2_ParentChildRoundTrip ==
  (/\ op = "getRelationshipLabel"
   /\ WellFormed(members)
   /\ InRoster(person, members) /\ InRoster(relativeTo, members)) =>
    /\ relativeTo.id \in IdsOf(person.relationships.children) => label.description = "Parent"
    /\ person.id \in IdsOf(relativeTo.relationships.children) => label.description = "Child"

\* a child labelled relative to its parent, in a family where the two are
\* also connected through a third member
C2_Witness ==
  /\ op = "getRelationshipLabel"
  /\ WellFormed(members)
  /\ InRoster(person, members) /\ InRoster(relativeTo, members)
  /\ person.id \in IdsOf(relativeTo.relationships.children)
  /\ label.description = "Child"
  /\ TwoHops(person, relativeTo, "spouses", "children", members)

\* C3: getAllRelationships never lists person itself; on a roster with unique
\* ids that contains person it lists every other member once, in roster
\* order, each with that member's label relative to person.
C3_AllRelationships ==
  op = "getAllRelationships" =>
    /\ \A k \in 1..Len(allRels) : allRels[k].member.id # person.id
    /\ (UniqueIds(members) /\ InRoster(person, members)) =>
         /\ Len(allRels) = Len(members) - 1
         /\ [k \in 1..Len(allRels) |-> allRels[k].member] =
              SelectSeq(members, LAMBDA m : m # person)
         /\ \A k \in 1..Len(allRels) :
              allRels[k].relationship =
                getRelationshipLabel(allRels[k].member, person, members)

\* a batch whose first entry is a child of person: labelled Child, where the
\* reverse direction would say Parent
C3_Witness ==
  /\ op = "getAllRelationships"
  /\ UniqueIds(members) /\ InRoster(person, members)
  /\ Len(allRels) >= 2
  /\ allRels[1].relationship.description = "Child"
  /\ getRelationshipLabel(person, allRels[1].member, members).description = "Parent"

\* the gendered word of each rule
Term(description, gender) ==
  LET pick(m, f, o) == IF gender = "male" THEN m ELSE IF gender = "female" THEN f ELSE o
  IN  CASE description = "Parent" -> pick("Father", "Mother", "Parent")
        [] description = "Child" -> pick("Son", "Daughter", "Child")
        [] description = "Spouse" -> pick("Husband", "Wife", "Spouse")
        [] description = "Sibling" -> pick("Brother", "Sister", "Sibling")
        [] description = "Grandparent" -> pick("Grandfather", "Grandmother", "Grandparent")
        [] description = "Grandchild" -> pick("Grandson", "Granddaughter", "Grandchild")
        [] description = "Parent's sibling" -> pick("Uncle", "Aunt", "Aunt/Uncle")
        [] description = "Sibling's child" -> pick("Nephew", "Niece", "Nephew/Niece")
        [] description = "Parent's sibling's child" -> "Cousin"
        [] description = "Spouse's parent" -> pick("Father-in-law", "Mother-in-law", "Parent-in-law")
        [] description = "Spouse's sibling" -> pick("Brother-in-law", "Sister-in-law", "Sibling-in-law")
        [] description = "Sibling's spouse" -> pick("Brother-in-law", "Sister-in-law", "Sibling-in-law")
        [] OTHER -> "Family Member"

\* C4: the relationship word is fixed by the matched rule and person.gender
\* (masculine, feminine or neutral term; Cousin for every gender) and does not
\* change with relativeTo.gender.
C4_GenderedWord ==
  op = "getRelationshipLabel" =>
    /\ label.relationship = Term(label.description, person.gender)
    /\ \A g \in {"male", "female", "other"} :
         getRelationshipLabel(person, [relativeTo EXCEPT !.gender = g], members) = label

\* a neutral term returned for a person of gender 'other' relative to a man
C4_Witness ==
  /\ op = "getRelationshipLabel"
  /\ person.gender = "other" /\ relativeTo.gender = "male"
  /\ label.relationship = "Aunt/Uncle"

\* the list with every id dropped that is neither a roster member's nor keepId
Pruned(list, allMembers, keepId) ==
  SelectSeq(list, LAMBDA x : x \in RosterIds(allMembers) \cup {keepId})

PrunedMember(m, allMembers, keepId) ==
  FamilyMember(m.id, m.gender,
               Pruned(m.relationships.parents, allMembers, keepId),
               Pruned(m.relationships.siblings, allMembers, keepId),
               Pruned(m.relationships.spouses, allMembers, keepId),
               Pruned(m.relationships.children, allMembers, keepId))

PrunedRoster(allMembers, keepId) ==
  [i \in 1..Len(allMembers) |-> PrunedMember(allMembers[i], allMembers, keepId)]

Descriptions ==
  {"Parent", "Child", "Spouse", "Sibling", "Grandparent", "Grandchild",
   "Parent's sibling", "Sibling's child", "Parent's sibling's child",
   "Spouse's parent", "Spouse's sibling", "Sibling's spouse", "Related"}

\* C5: getRelationshipLabel raises no error on any roster (dangling ids,
\* cycles, person or relativeTo outside the roster) and returns a label; the
\* label is the one it returns on the roster with the dangling ids left out.
C5_Total ==
  op = "getRelationshipLabel" =>
    /\ label # Thrown
    /\ label.description \in Descriptions
    /\ label = getRelationshipLabel(person,
                                    PrunedMember(relativeTo, members, person.id),
                                    PrunedRoster(members, person.id))

\* relativeTo lists a deleted member as a parent and a later rule still matches
C5_Witness ==
  /\ op = "getRelationshipLabel"
  /\ \E x \in IdsOf(relativeTo.relationships.parents) : x \notin RosterIds(members)
  /\ label.description = "Sibling's child"

\* the position in RulesInOrder of the spouse's-sibling rule for the k-th spouse
SpouseSiblingRule(k) == 9 + 2 * k

\* C6: A and B list each other as spouses, C is listed in A.siblings, and no
\* earlier rule matches (C, B): the label of C relative to B is the
\* sibling-in-law term for C's gender, described "Spouse's sibling".
C6_SpouseSibling ==
  (/\ op = "getRelationshipLabel"
   /\ InRoster(person, members) /\ InRoster(relativeTo, members)) =>
    \A k \in 1..Len(relativeTo.relationships.spouses) :
      LET A == MapGet(members, relativeTo.relationships.spouses[k])
          rules == RulesInOrder(person, relativeTo, members)
      IN  (/\ A.id \in RosterIds(members)
           /\ relativeTo.id \in IdsOf(A.relationships.spouses)
           /\ person.id \in IdsOf(A.relationships.siblings)
           /\ \A j \in 1..(SpouseSiblingRule(k) - 1) : ~rules[j].matches) =>
            label = RelationshipLabel(
                      IF person.gender = "male" THEN "Brother-in-law"
                      ELSE IF person.gender = "female" THEN "Sister-in-law"
                      ELSE "Sibling-in-law",
                      "Spouse's sibling")

\* the scenario roster: B's spouse A has the sibling C, and C is labelled
\* relative to B
C6_Witness ==
  /\ op = "getRelationshipLabel"
  /\ WellFormed(members)
  /\ InRoster(person, members) /\ InRoster(relativeTo, members)
  /\ \E k \in 1..Len(relativeTo.relationships.spouses) :
       LET A == MapGet(members, relativeTo.relationships.spouses[k])
       IN  /\ relativeTo.id \in IdsOf(A.relationships.spouses)
           /\ person.id \in IdsOf(A.relationships.siblings)
  /\ label.relationship = "Sister-in-law"

\* C7: A's parent P1 lists P2 as a sibling, P2 lists X as a child (all roster
\* members) and no direct, grandparent, grandchild, aunt/uncle or nephew/niece
\* rule matches: the label of X relative to A is 'Cousin'.
C7_Cousin ==
  (/\ op = "getRelationshipLabel"
   /\ \E P1 \in Listed(relativeTo, "parents", members) :
        \E P2 \in Listed(MapGet(members, P1), "siblings", members) :
          person.id \in IdsOf(MapGet(members, P2).relationships.children)
   /\ \A j \in 1..8 : ~RulesInOrder(person, relativeTo, members)[j].matches) =>
    label.relationship = "Cousin"

\* the cousin scenario in a well-formed roster
C7_Witness ==
  /\ op = "getRelationshipLabel"
  /\ WellFormed(members)
  /\ InRoster(person, members) /\ InRoster(relativeTo, members)
  /\ label.relationship = "Cousin"

InLawWords ==
  {"Father-in-law", "Mother-in-law", "Parent-in-law",
   "Brother-in-law", "Sister-in-law", "Sibling-in-law",
   "Son-in-law", "Daughter-in-law", "Child-in-law"}

\* C8: in a well-formed roster, when X relative to Y is a parent-in-law, the
\* reverse call (Y relative to X) returns an in-law label as well, not the
\* fallback.
C8_InLawBothWays ==
  (/\ op = "getRelationshipLabel"
   /\ WellFormed(members)
   /\ InRoster(person, members) /\ InRoster(relativeTo, members)
   /\ label.description = "Spouse's parent") =>
    getRelationshipLabel(relativeTo, person, members).relationship \in InLawWords

\* C9: no call of getRelationshipLabel, getAllRelationships, generateTreeLayout
\* or generateRelationshipMap changes the roster: its order and every member's
\* lists are after the call what they were before it.
C9_RosterUnchanged == [][members' = members /\ family' = family]_vars

\* a call has returned a layout of the whole roster with at least two edges
C9_Witness ==
  /\ op = "generateRelationshipMap"
  /\ Len(nodes) = Len(members)
  /\ Len(connections) >= 2
  /\ members = family

\* every roster member has exactly one node
OneNodeEach(allMembers, generatedNodes) ==
  \A i \in 1..Len(allMembers) :
    Cardinality({k \in 1..Len(generatedNodes) : generatedNodes[k].id = allMembers[i].id}) = 1

\* C10: for every non-empty roster with unique ids, symmetric or not,
\* generateRelationshipMap produces exactly one node per roster member.
C10_MapperCoverage ==
  (/\ op = "generateRelationshipMap"
   /\ Len(members) > 0
   /\ UniqueIds(members)) =>
    OneNodeEach(members, nodes)

\* C11: for every well-formed roster, generateTreeLayout produces exactly one
\* node per member, also for a child listed in the children of two members of
\* one generation.
C11_TreeCoverage ==
  (op = "generateTreeLayout" /\ WellFormed(members)) =>
    OneNodeEach(members, treeNodes)

\* the focus of the last generateRelationshipMap call is absent or a roster member
FocusInRoster == focusMember = NoFocus \/ InRoster(focusMember, members)

\* C12: in the mapper's layout of a well-formed roster, for every focus
\* member, the node of a parent B of A has a generation of at least the
\* generation of A's node plus one.
C12_MapperMonotone ==
  (/\ op = "generateRelationshipMap"
   /\ Len(members) > 0
   /\ WellFormed(members)
   /\ FocusInRoster) =>
    \A a \in 1..Len(nodes) : \A b \in 1..Len(nodes) :
      nodes[b].id \in IdsOf(nodes[a].member.relationships.parents) =>
        nodes[b].generation >= nodes[a].generation + 1

\* C20: in the mapper's layout of a well-formed roster, for every focus
\* member, two members of whom one lists the other as sibling or spouse have
\* nodes of the same generation.
C20_SameGeneration ==
  (/\ op = "generateRelationshipMap"
   /\ Len(members) > 0
   /\ WellFormed(members)
   /\ FocusInRoster) =>
    \A a \in 1..Len(nodes) : \A b \in 1..Len(nodes) :
      nodes[b].id \in IdsOf(nodes[a].member.relationships.siblings)
                        \cup IdsOf(nodes[a].member.relationships.spouses) =>
        nodes[b].generation = nodes[a].generation

(***************************************************************************)
(* The layouts over the life of a screen: a tree that was just founded and *)
(* has grown by a few members, laid out again whenever the roster the      *)
(* screen holds changes.                                                   *)
(***************************************************************************)
MaxFounded == 3

\* the edges among the first k members
FoundedEdges(k) == {e \in AllEdges : \A t \in e : t[1] <= k /\ t[3] <= k}

\* currentTree.members of a young tree: no member yet (nothing loaded), the
\* founder, or the founder and the members added since, connected in pairs
FoundingRosters ==
  UNION {{SubSeq(RosterOf(UNION ES, desc), 1, k) :
            ES \in SubsetsUpTo(FoundedEdges(k), MaxEdges), desc \in BOOLEAN} :
         k \in 0..MaxFounded}

InitFounded ==
  /\ family \in FoundingRosters
  /\ members = family
  /\ op = "idle"
  /\ person = Undefined
  /\ relativeTo = Undefined
  /\ label = NoLabel
  /\ allRels = <<>>
  /\ focusMember = NoFocus
  /\ nodes = <<>>
  /\ connections = <<>>
  /\ treeNodes = <<>>
  /\ treeConnections = <<>>
  /\ SysInit

\* the rosters a later render passes as members: none, or the roster without
\* one of its members
Rerenders(allMembers) ==
  {<<>>} \cup {deleteFamilyMember(allMembers, allMembers[i].id) : i \in 1..Len(allMembers)}

\* a render of the mounted RelationshipMapper with another members prop: the
\* effect on [members, focusMember] runs generateRelationshipMap again, over
\* the state the earlier run has set
MembersChanged ==
  /\ op = "generateRelationshipMap"
  /\ \E next \in Rerenders(members) :
       \E f \in {NoFocus} \cup {family[i] : i \in 1..Len(family)} :
         /\ members' = next
         /\ focusMember' = f
         /\ IF Len(next) = 0
            THEN UNCHANGED <<nodes, connections>>
            ELSE LET focus == IF f # NoFocus THEN f ELSE next[1]
                     generatedNodes == GeneratedNodes(next, focus)
                 IN  /\ nodes' = generatedNodes
                     /\ connections' = GeneratedConnections(generatedNodes)
  /\ UNCHANGED <<sysVars, family, op, kinVars, treeVars>>

NextLayout ==
  \/ generateRelationshipMap
  \/ MembersChanged
  \/ CallGenerateTreeLayout
  \/ Leave

\* the layout routines over the renders of a screen
SpecLayout == InitFounded /\ [][NextLayout]_vars

\* the roster is Alice and Bob alone: members[a] lists members[b] as its only
\* child, members[b] lists members[a] as its only parent
AliceAndBob(a, b) ==
  /\ Len(members) = 2
  /\ a # b
  /\ members[a].relationships =
       [parents |-> <<>>, siblings |-> <<>>, spouses |-> <<>>,
        children |-> <<members[b].id>>]
  /\ members[b].relationships =
       [parents |-> <<members[a].id>>, siblings |-> <<>>, spouses |-> <<>>,
        children |-> <<>>]

StoredFounded(fam) ==
  {fam} \cup (IF Len(fam) = 0 THEN {}
              ELSE {deleteFamilyMember(fam, fam[Len(fam)].id),
                    handleSubmit(fam, fam[1].id, "other")})

InitRun ==
  /\ family \in FoundingRosters
  /\ members \in StoredFounded(family)
  /\ op = "idle"
  /\ person = Undefined
  /\ relativeTo = Undefined
  /\ label = NoLabel
  /\ allRels = <<>>
  /\ focusMember = NoFocus
  /\ nodes = <<>>
  /\ connections = <<>>
  /\ treeNodes = <<>>
  /\ treeConnections = <<>>
  /\ SysInit

\* generateTreeLayout up to its while loop
EnterGenerateTreeLayout ==
  /\ op = "idle"
  /\ run = NotRunning
  /\ IF Len(members) = 0
     THEN /\ treeNodes' = <<>>
          /\ treeConnections' = <<>>
          /\ op' = "generateTreeLayout"
          /\ UNCHANGED run
     ELSE LET rootMembers == SelectSeq(members, LAMBDA m : Len(m.relationships.parents) = 0)
              roots == IF Len(rootMembers) > 0 THEN rootMembers ELSE <<members[1]>>
          IN  /\ run' = [pc |-> "while",
                         currentGeneration |-> [k \in 1..Len(roots) |-> roots[k].id],
                         generation |-> 0, visited |-> {}, pushed |-> <<>>]
              /\ UNCHANGED <<op, treeVars>>
  /\ UNCHANGED <<appVars, family, members, kinVars, mapVars>>

\* one iteration of while (currentGeneration.length > 0)
processGeneration ==
  /\ run.pc = "while"
  /\ Len(run.currentGeneration) > 0
  /\ LET validMembers == ValidMembers(run.currentGeneration, run.visited, members)
     IN  run' = [run EXCEPT
                   !.currentGeneration = FlatChildren(validMembers, 1),
                   !.generation = @ + 1,
                   !.visited = @ \cup {validMembers[k].id : k \in 1..Len(validMembers)},
                   !.pushed = @ \o GenerationNodes(validMembers, run.generation)]
  /\ UNCHANGED <<appVars, family, members, op, kinVars, mapVars, treeVars>>

\* the loop is left, the connections are generated, the layout is returned
ReturnTreeLayout ==
  /\ run.pc = "while"
  /\ Len(run.currentGeneration) = 0
  /\ treeNodes' = run.pushed
  /\ treeConnections' = TreeConnections(members, 1)
  /\ op' = "generateTreeLayout"
  /\ run' = NotRunning
  /\ UNCHANGED <<appVars, family, members, kinVars, mapVars>>

\* assignGeneration from its visited.add to its first forEach
Entered(member, generation, maps) ==
  LET mg == maps.memberGenerations
      currentGen == IF member.id \in DOMAIN mg THEN mg[member.id] ELSE generation
      gens == maps.generations
      genMembers == IF generation \in DOMAIN gens THEN gens[generation] ELSE <<>>
      pushed == IF \E k \in 1..Len(genMembers) : genMembers[k].id = member.id
                THEN genMembers ELSE Append(genMembers, member)
  IN  [visited |-> maps.visited \cup {member.id},
       memberGenerations |->
         MapSet(mg, member.id, IF currentGen >= generation THEN currentGen ELSE generation),
       generations |-> MapSet(gens, generation, pushed)]

\* a running call of assignGeneration: the relatives it goes through and the
\* index of the next one
Frame(member, generation) == [todo |-> Proposals(member, generation), i |-> 1]

\* generateRelationshipMap up to its call assignGeneration(focus, 0), which
\* enters (its visited set is new)
EnterGenerateRelationshipMap ==
  /\ op = "idle"
  /\ run = NotRunning
  /\ \E f \in {NoFocus} \cup {family[i] : i \in 1..Len(family)} :
       /\ focusMember' = f
       /\ IF Len(members) = 0
          THEN /\ op' = "generateRelationshipMap"
               /\ UNCHANGED <<run, nodes, connections>>
          ELSE LET focus == IF f # NoFocus THEN f ELSE members[1]
               IN  /\ run' = [pc |-> "assign", focus |-> focus,
                              stack |-> <<Frame(focus, 0)>>,
                              maps |-> Entered(focus, 0, EmptyMaps), j |-> 0, steps |-> 0]
                   /\ UNCHANGED <<op, nodes, connections>>
  /\ UNCHANGED <<appVars, family, members, kinVars, treeVars>>

\* one forEach iteration of the innermost running assignGeneration: the
\* relative is looked up and, when found, assignGeneration is called for it,
\* which returns at once for a visited member and enters otherwise
AssignStep ==
  /\ run.pc = "assign"
  /\ Len(run.stack) > 0
  /\ LET top == run.stack[Len(run.stack)]
         rest == SubSeq(run.stack, 1, Len(run.stack) - 1)
     IN  /\ top.i <= Len(top.todo)
         /\ LET proposal == top.todo[top.i]
                relative == Find(members, proposal.id)
                advanced == Append(rest, [top EXCEPT !.i = @ + 1])
            IN  IF relative = Undefined \/ relative.id \in run.maps.visited
                THEN run' = [run EXCEPT !.stack = advanced, !.steps = @ + 1]
                ELSE run' = [run EXCEPT
                               !.steps = @ + 1,
                               !.stack = Append(advanced, Frame(relative, proposal.generation)),
                               !.maps = Entered(relative, proposal.generation, run.maps)]
  /\ UNCHANGED <<appVars, family, members, op, kinVars, mapVars, treeVars>>

\* the innermost running assignGeneration is through its four loops and returns
AssignReturn ==
  /\ run.pc = "assign"
  /\ Len(run.stack) > 0
  /\ LET top == run.stack[Len(run.stack)]
     IN  /\ top.i > Len(top.todo)
         /\ run' = [run EXCEPT !.stack = SubSeq(run.stack, 1, Len(run.stack) - 1),
                               !.steps = @ + 1]
  /\ UNCHANGED <<appVars, family, members, op, kinVars, mapVars, treeVars>>

\* one iteration of members.forEach over the remaining members
RemainingStep ==
  /\ run.pc = "assign"
  /\ Len(run.stack) = 0
  /\ run.j < Len(members)
  /\ LET member == members[run.j + 1]
     IN  IF member.id \notin DOMAIN run.maps.memberGenerations
         THEN run' = [run EXCEPT
                        !.j = @ + 1,
                        !.steps = @ + 1,
                        !.stack = <<Frame(member, 0)>>,
                        !.maps = Entered(member, 0, [run.maps EXCEPT !.visited = {}])]
         ELSE run' = [run EXCEPT !.j = @ + 1, !.steps = @ + 1]
  /\ UNCHANGED <<appVars, family, members, op, kinVars, mapVars, treeVars>>

\* the rows are laid out, the connections generated, setNodes and
\* setConnections called
ReturnRelationshipMap ==
  /\ run.pc = "assign"
  /\ Len(run.stack) = 0
  /\ run.j = Len(members)
  /\ LET generations == run.maps.generations
         generatedNodes == LayoutRows(SortDescending(DOMAIN generations), 1, generations)
     IN  /\ nodes' = generatedNodes
         /\ connections' = GeneratedConnections(generatedNodes)
  /\ op' = "generateRelationshipMap"
  /\ run' = NotRunning
  /\ UNCHANGED <<appVars, family, members, kinVars, treeVars, focusMember>>

\* the steps of a routine that is running
RunStep ==
  \/ processGeneration
  \/ ReturnTreeLayout
  \/ AssignStep
  \/ AssignReturn
  \/ RemainingStep
  \/ ReturnRelationshipMap

NextRun ==
  \/ EnterGenerateTreeLayout
  \/ EnterGenerateRelationshipMap
  \/ RunStep
  \/ Leave

\* the routines called and run step by step
SpecRun == InitRun /\ [][NextRun]_vars

\* a layout routine is running
Running == run # NotRunning

RECURSIVE SumOver(_, _)
SumOver(list, k) == IF k > Len(list) THEN 0 ELSE list[k] + SumOver(list, k + 1)

\* the steps of one traversal in which the focus and every roster entry run
\* assignGeneration once: the iterations of its loops and its return
TraversalSteps(allMembers, focus) ==
  Len(Proposals(focus, 0)) + 1 +
  SumOver([k \in 1..Len(allMembers) |-> Len(Proposals(allMembers[k], 0)) + 1], 1)

\* the guard of one of the steps holds: the while loop is at its test; a
\* running assignGeneration is in its loops or through them; members.forEach
\* is at a member or through
CanStep ==
  \/ run.pc = "while"
  \/ /\ run.pc = "assign"
     /\ Len(run.stack) > 0
     /\ run.stack[Len(run.stack)].i <= Len(run.stack[Len(run.stack)].todo) + 1
  \/ run.pc = "assign" /\ Len(run.stack) = 0 /\ run.j <= Len(members)

\* C14: both layout routines terminate for every finite roster, also when
\* parent/child edges form a cycle or no member is parentless: a routine that
\* is running can always take its next step, generateTreeLayout's while loop
\* has run at most one iteration per member and one more, and
\* generateRelationshipMap has taken at most one step per roster entry plus
\* the steps of one traversal for the focus and for every roster entry; so
\* each call gets to its return and hands back a layout.
C14_LayoutsTerminate ==
  Running =>
    /\ CanStep
    /\ run.pc = "while" => run.generation <= Len(members) + 1
    /\ run.pc = "assign" =>
         run.steps <= Len(members) + (Len(members) + 1) * TraversalSteps(members, run.focus)

\* generateTreeLayout has returned the layout of a roster in which every
\* member has a parent and the parents form a cycle
C14_Witness ==
  /\ op = "generateTreeLayout"
  /\ Len(members) >= 2
  /\ UniqueIds(members)
  /\ \A i \in 1..Len(members) : Len(members[i].relationships.parents) > 0
  /\ ~Acyclic(members)
  /\ Len(treeNodes) = Len(members)

(***************************************************************************)
(* Onboarding and the Add Member screen over AsyncStorage.  AsyncStorage   *)
(* outlives the program: what it holds when the app starts is an input.    *)
(***************************************************************************)
MaxClock == 4

\* the accounts that sign in
Users == {[id |-> 1], [id |-> 2]}

\* the name typed into a form: left empty or not
Names == {"", "Ada"}

\* storeFamilyTree: the tree replaces the stored tree of its id, or is pushed
storeFamilyTree(trees, tree) ==
  LET existing == {k \in 1..Len(trees) : trees[k].id = tree.id}
  IN  IF existing # {} THEN [trees EXCEPT ![Min(existing)] = tree] ELSE Append(trees, tree)

\* the stored tree with the given id, as trees.find would return it
StoredTree(trees, id) ==
  LET existing == {k \in 1..Len(trees) : trees[k].id = id}
  IN  IF existing # {} THEN trees[Min(existing)] ELSE NoTree

\* the app is started on a device whose USER_DATA key is unset or holds an
\* account
InitTree ==
  /\ \E u \in {NoUser} \cup Users : storage = [EmptyStorage EXCEPT !.USER_DATA = u]
  /\ route = "/"
  /\ alert = ""
  /\ clock = 1
  /\ tasks = <<>>
  /\ submitted = <<>>
  /\ family = <<>>
  /\ members = <<>>
  /\ op = "idle"
  /\ person = Undefined
  /\ relativeTo = Undefined
  /\ label = NoLabel
  /\ allRels = <<>>
  /\ focusMember = NoFocus
  /\ nodes = <<>>
  /\ connections = <<>>
  /\ treeNodes = <<>>
  /\ treeConnections = <<>>
  /\ run = NotRunning

\* IndexScreen: checkAuthAndRedirect
checkAuthAndRedirect ==
  /\ route = "/"
  /\ route' = IF storage.USER_DATA = NoUser THEN "/welcome"
              ELSE IF storage.CURRENT_TREE = NoTree THEN "/onboarding/create-founder"
              ELSE "/(tabs)"
  /\ op' = "checkAuthAndRedirect"
  /\ alert' = ""
  /\ UNCHANGED <<libVars, members, storage, clock, tasks, submitted>>

\* WelcomeScreen: handleCreateTree
handleCreateTree ==
  /\ route = "/welcome"
  /\ route' = "/auth?mode=create"
  /\ op' = "handleCreateTree"
  /\ alert' = ""
  /\ UNCHANGED <<libVars, members, storage, clock, tasks, submitted>>

\* WelcomeScreen: handleJoinTree, Continue
handleJoinTree ==
  /\ route = "/welcome"
  /\ route' = "/auth?mode=join"
  /\ op' = "handleJoinTree"
  /\ alert' = "Join Family Tree"
  /\ UNCHANGED <<libVars, members, storage, clock, tasks, submitted>>

AuthRoutes == {"/auth", "/auth?mode=create", "/auth?mode=join"}

\* AuthScreen: checkExistingAuth, run when the screen mounts
checkExistingAuth ==
  /\ route \in AuthRoutes
  /\ route' = IF storage.isAuthenticated THEN "/(tabs)" ELSE route
  /\ op' = "checkExistingAuth"
  /\ alert' = ""
  /\ UNCHANGED <<libVars, members, storage, clock, tasks, submitted>>

\* AuthScreen: handleAuthSuccess, Continue
handleAuthSuccess ==
  /\ route \in AuthRoutes
  /\ \E user \in Users :
       storage' = [storage EXCEPT !.currentUser = user, !.isAuthenticated = TRUE]
  /\ route' = IF route = "/auth?mode=create" THEN "/onboarding/create-founder"
              ELSE IF route = "/auth?mode=join" THEN "/onboarding/join-tree"
              ELSE "/(tabs)"
  /\ alert' = IF route = "/auth?mode=join" THEN "Welcome Back!" ELSE "Welcome to LegacyLink!"
  /\ op' = "handleAuthSuccess"
  /\ UNCHANGED <<libVars, members, clock, tasks, submitted>>

\* CreateFounderScreen: handleCreateFounder
handleCreateFounder ==
  /\ route = "/onboarding/create-founder"
  /\ clock < MaxClock
  /\ \E name \in Names, gender \in {Genders[g] : g \in 1..Len(Genders)} :
       IF name = ""
       THEN /\ alert' = "Please enter your name"
            /\ UNCHANGED <<storage, route, clock, submitted>>
       ELSE IF storage.USER_DATA = NoUser
       THEN /\ alert' = "User data not found. Please sign in again."
            /\ route' = "/auth"
            /\ UNCHANGED <<storage, clock, submitted>>
       ELSE LET founder == FamilyMember(clock, gender, <<>>, <<>>, <<>>, <<>>)
                familyTree == FamilyTree(clock, storage.USER_DATA.id, <<founder>>)
            IN  /\ storage' = [storage EXCEPT
                                 !.FAMILY_TREES = storeFamilyTree(@, familyTree),
                                 !.CURRENT_TREE = familyTree]
                /\ route' = "/(tabs)"
                /\ alert' = ""
                /\ clock' = clock + 1
                /\ submitted' = <<>>
  /\ op' = "handleCreateFounder"
  /\ UNCHANGED <<libVars, members, tasks>>

\* AddMemberScreen: handleSubmit
AddMemberSubmit ==
  /\ route = "/(tabs)"
  /\ clock < MaxClock
  /\ \E name \in Names, gender \in {Genders[g] : g \in 1..Len(Genders)} :
       IF name = ""
       THEN /\ alert' = "Required Field"
            /\ UNCHANGED <<storage, clock, submitted>>
       ELSE LET currentTree == storage.CURRENT_TREE
                newMember == FamilyMember(clock, gender, <<>>, <<>>, <<>>, <<>>)
            IN  /\ IF currentTree # NoTree
                   THEN /\ storage' =
                             [storage EXCEPT
                                !.FAMILY_TREES =
                                   storeFamilyTree(@, [currentTree EXCEPT
                                                         !.members = handleSubmit(@, clock, gender)])]
                        /\ submitted' = Append(submitted, newMember)
                   ELSE /\ storage' = [storage EXCEPT
                                         !.FAMILY_MEMBERS = handleSubmit(@, clock, gender)]
                        /\ UNCHANGED submitted
                /\ alert' = "Success!"
                /\ clock' = clock + 1
  /\ op' = "handleSubmit"
  /\ UNCHANGED <<libVars, members, route, tasks>>

\* the app is closed and started again
Restart ==
  /\ route # "/"
  /\ route' = "/"
  /\ op' = "idle"
  /\ alert' = ""
  /\ UNCHANGED <<libVars, members, storage, clock, tasks, submitted>>

NextTree ==
  \/ checkAuthAndRedirect
  \/ handleCreateTree
  \/ handleJoinTree
  \/ checkExistingAuth
  \/ handleAuthSuccess
  \/ handleCreateFounder
  \/ AddMemberSubmit
  \/ Restart

\* onboarding and adding members
SpecTree == InitTree /\ [][NextTree]_vars

\* a roster holds the member
Holds(allMembers, m) == \E k \in 1..Len(allMembers) : allMembers[k] = m

\* C16: after a handleSubmit that succeeded with a current tree set, the tree
\* getCurrentTree returns next holds the new member, and after n such
\* submissions the stored tree with the current tree's id holds all n members.
C16_ReadsSeeWrites ==
  (op = "handleSubmit" /\ alert = "Success!" /\ storage.CURRENT_TREE # NoTree) =>
    /\ Holds(storage.CURRENT_TREE.members, submitted[Len(submitted)])
    /\ \A k \in 1..Len(submitted) :
         Holds(StoredTree(storage.FAMILY_TREES, storage.CURRENT_TREE.id).members, submitted[k])

\* C19: onboarding can complete: once handleAuthSuccess has stored the user,
\* checkAuthAndRedirect does not route to '/welcome' (it routes to
\* create-founder while there is no current tree, else to the tabs), and
\* handleCreateFounder with a name stores the new tree and sets it current
\* instead of failing with 'User data not found'.
C19_OnboardingCompletes ==
  storage.isAuthenticated =>
    /\ op = "checkAuthAndRedirect" =>
         route = IF storage.CURRENT_TREE = NoTree THEN "/onboarding/create-founder"
                 ELSE "/(tabs)"
    /\ (op = "handleCreateFounder" /\ alert # "Please enter your name") =>
         /\ alert # "User data not found. Please sign in again."
         /\ storage.CURRENT_TREE # NoTree
         /\ StoredTree(storage.FAMILY_TREES, storage.CURRENT_TREE.id) = storage.CURRENT_TREE

(***************************************************************************)
(* The Members screen over the roster stored under FAMILY_MEMBERS.  An     *)
(* AsyncStorage read or write can fail; the code catches both.             *)
(***************************************************************************)
\* StorageService.loadFamilyMembers: the stored roster, [] when the read fails
loadFamilyMembers(ok) == IF ok THEN storage.FAMILY_MEMBERS ELSE <<>>

\* the roster found on the device; the screen has not loaded it yet
InitDelete ==
  /\ \E fam \in FoundingRosters : \E stored \in StoredFounded(fam) :
       storage = [EmptyStorage EXCEPT !.FAMILY_MEMBERS = stored]
  /\ route = "/(tabs)"
  /\ alert = ""
  /\ clock = 1
  /\ tasks = <<>>
  /\ submitted = <<>>
  /\ family = <<>>
  /\ members = <<>>
  /\ op = "idle"
  /\ person = Undefined
  /\ relativeTo = Undefined
  /\ label = NoLabel
  /\ allRels = <<>>
  /\ focusMember = NoFocus
  /\ nodes = <<>>
  /\ connections = <<>>
  /\ treeNodes = <<>>
  /\ treeConnections = <<>>
  /\ run = NotRunning

\* MembersScreen: loadMembers, when the screen gets the focus
loadMembers ==
  /\ \E ok \in BOOLEAN : members' = loadFamilyMembers(ok)
  /\ op' = "loadMembers"
  /\ alert' = ""
  /\ tasks' = <<>>
  /\ UNCHANGED <<libVars, storage, route, clock, submitted>>

\* MembersScreen: handleDeleteMember, Delete, with
\* StorageService.deleteFamilyMember inside; tasks keeps the call
handleDeleteMember ==
  /\ \E k \in 1..Len(members) : \E loadOk \in BOOLEAN, saveOk \in BOOLEAN :
       LET memberId == members[k].id
           updatedMembers == deleteFamilyMember(loadFamilyMembers(loadOk), memberId)
       IN  /\ tasks' = <<[handler |-> "deleteFamilyMember", memberId |-> memberId,
                          pc |-> IF saveOk THEN "done" ELSE "thrown"]>>
           /\ IF saveOk
              THEN /\ storage' = [storage EXCEPT !.FAMILY_MEMBERS = updatedMembers]
                   /\ members' = deleteFamilyMember(members, memberId)
                   /\ alert' = "Success"
              ELSE /\ alert' = "Failed to delete family member"
                   /\ UNCHANGED <<storage, members>>
  /\ op' = "handleDeleteMember"
  /\ UNCHANGED <<libVars, route, clock, submitted>>

NextDelete == loadMembers \/ handleDeleteMember

\* loading and deleting on the Members screen
SpecDelete == InitDelete /\ [][NextDelete]_vars

\* C18: deleteFamilyMember(id) removes exactly the stored entries whose id is
\* the argument and leaves every other entry as it was, lists that hold the
\* deleted id included; when the save fails the error is thrown on and the
\* stored roster is unchanged.
C18_DeleteNoCascade ==
  [][handleDeleteMember =>
       /\ tasks'[1].pc = "done" =>
            storage'.FAMILY_MEMBERS =
              SelectSeq(storage.FAMILY_MEMBERS, LAMBDA m : m.id # tasks'[1].memberId)
       /\ tasks'[1].pc = "thrown" => storage' = storage]_vars

(***************************************************************************)
(* The Relationships screen: createConnection starts two calls of          *)
(* handleRelationshipUpdate without awaiting either; each call runs from   *)
(* one await to the next, and the two interleave at these points.          *)
(***************************************************************************)
MaxConnected == 2

\* the rosters of the current tree on the device
ConnectRosters == {r \in FoundingRosters : Len(r) >= 2 /\ Len(r) <= MaxConnected}

ConnectionTypes == {"parent", "spouse", "sibling", "child"}

\* if (!list.includes(id)) list.push(id)
PushNew(list, id) == IF Includes(list, id) THEN list ELSE Append(list, id)

\* the switch of createConnection for the member the connection starts at
UpdatedFrom(relationships, connectionType, toId) ==
  CASE connectionType = "parent" -> [relationships EXCEPT !.children = PushNew(@, toId)]
    [] connectionType = "spouse" -> [relationships EXCEPT !.spouses = PushNew(@, toId)]
    [] connectionType = "sibling" -> [relationships EXCEPT !.siblings = PushNew(@, toId)]
    [] connectionType = "child" -> [relationships EXCEPT !.parents = PushNew(@, toId)]

\* the switch of createConnection for the member the connection ends at
UpdatedTo(relationships, connectionType, fromId) ==
  CASE connectionType = "parent" -> [relationships EXCEPT !.parents = PushNew(@, fromId)]
    [] connectionType = "spouse" -> [relationships EXCEPT !.spouses = PushNew(@, fromId)]
    [] connectionType = "sibling" -> [relationships EXCEPT !.siblings = PushNew(@, fromId)]
    [] connectionType = "child" -> [relationships EXCEPT !.children = PushNew(@, fromId)]

\* currentTree.members.map(member => member.id === memberId ? {...member, relationships} : member)
WithRelationships(allMembers, memberId, relationships) ==
  [k \in 1..Len(allMembers) |->
     IF allMembers[k].id = memberId THEN [allMembers[k] EXCEPT !.relationships = relationships]
     ELSE allMembers[k]]

\* a call of handleRelationshipUpdate(memberId, relationships) at its first await
Update(memberId, relationships) ==
  [handler |-> "handleRelationshipUpdate", memberId |-> memberId,
   relationships |-> relationships, pc |-> "getCurrentTree",
   updatedTree |-> NoTree, trees |-> <<>>]

\* the screen has loaded the current tree found on the device
InitUpdate ==
  /\ \E r \in ConnectRosters :
       /\ storage = [EmptyStorage EXCEPT !.USER_DATA = [id |-> 1],
                                         !.FAMILY_TREES = <<FamilyTree(1, 1, r)>>,
                                         !.CURRENT_TREE = FamilyTree(1, 1, r)]
       /\ members = r
  /\ route = "/(tabs)"
  /\ alert = ""
  /\ clock = 1
  /\ tasks = <<>>
  /\ submitted = <<>>
  /\ family = <<>>
  /\ op = "idle"
  /\ person = Undefined
  /\ relativeTo = Undefined
  /\ label = NoLabel
  /\ allRels = <<>>
  /\ focusMember = NoFocus
  /\ nodes = <<>>
  /\ connections = <<>>
  /\ treeNodes = <<>>
  /\ treeConnections = <<>>
  /\ run = NotRunning

\* no call of handleRelationshipUpdate is in flight
Settled == \A t \in 1..Len(tasks) : tasks[t].pc \in {"done", "failed", "returned"}

\* RelationshipsScreen: loadFamilyData, when the screen gets the focus
loadFamilyData ==
  /\ Settled
  /\ tasks # <<>>
  /\ members' = storage.CURRENT_TREE.members
  /\ tasks' = <<>>
  /\ op' = "loadFamilyData"
  /\ alert' = ""
  /\ UNCHANGED <<libVars, storage, route, clock, submitted>>

\* RelationshipMapper: createConnection, Create.  The lists pushed onto are
\* the arrays of the member objects in the members prop (the spread copies
\* the relationships object, not its arrays); both updates are handed to
\* onRelationshipUpdate, which starts the two calls.
createConnection ==
  /\ tasks = <<>>
  /\ \E fromId \in RosterIds(members), toId \in RosterIds(members) :
       \E connectionType \in ConnectionTypes :
         /\ fromId # toId
         /\ LET updatedFromRelationships ==
                  UpdatedFrom(Find(members, fromId).relationships, connectionType, toId)
                updatedToRelationships ==
                  UpdatedTo(Find(members, toId).relationships, connectionType, fromId)
            IN  /\ members' =
                     [k \in 1..Len(members) |->
                        IF members[k] = Find(members, fromId)
                        THEN [members[k] EXCEPT !.relationships = updatedFromRelationships]
                        ELSE IF members[k] = Find(members, toId)
                        THEN [members[k] EXCEPT !.relationships = updatedToRelationships]
                        ELSE members[k]]
                /\ tasks' = <<Update(fromId, updatedFromRelationships),
                              Update(toId, updatedToRelationships)>>
  /\ op' = "createConnection"
  /\ alert' = ""
  /\ UNCHANGED <<libVars, storage, route, clock, submitted>>

\* handleRelationshipUpdate from `await getCurrentTree()` to the await in
\* storeFamilyTree
UpdateGetCurrentTree(t) ==
  /\ tasks[t].pc = "getCurrentTree"
  /\ LET currentTree == storage.CURRENT_TREE
     IN  tasks' = [tasks EXCEPT ![t] =
                     IF currentTree = NoTree THEN [@ EXCEPT !.pc = "returned"]
                     ELSE [@ EXCEPT !.pc = "getFamilyTrees",
                                    !.updatedTree =
                                       [currentTree EXCEPT
                                          !.members = WithRelationships(@, tasks[t].memberId,
                                                                        tasks[t].relationships)]]]
  /\ op' = "handleRelationshipUpdate"
  /\ UNCHANGED <<libVars, members, storage, route, alert, clock, submitted>>

\* storeFamilyTree from `await getFamilyTrees()` to its setItem
UpdateGetFamilyTrees(t) ==
  /\ tasks[t].pc = "getFamilyTrees"
  /\ tasks' = [tasks EXCEPT ![t] =
                 [@ EXCEPT !.pc = "setItem",
                           !.trees = storeFamilyTree(storage.FAMILY_TREES, tasks[t].updatedTree)]]
  /\ op' = "handleRelationshipUpdate"
  /\ UNCHANGED <<libVars, members, storage, route, alert, clock, submitted>>

\* AsyncStorage.setItem(FAMILY_TREES, ..): the write, or its failure, which
\* storeFamilyTree throws on to the catch of handleRelationshipUpdate
UpdateSetItem(t) ==
  /\ tasks[t].pc = "setItem"
  /\ \E ok \in BOOLEAN :
       IF ok
       THEN /\ storage' = [storage EXCEPT !.FAMILY_TREES = tasks[t].trees]
            /\ tasks' = [tasks EXCEPT ![t] = [@ EXCEPT !.pc = "setFamilyMembers"]]
            /\ UNCHANGED alert
       ELSE /\ tasks' = [tasks EXCEPT ![t] = [@ EXCEPT !.pc = "failed"]]
            /\ alert' = "Failed to update relationship. Please try again."
            /\ UNCHANGED storage
  /\ op' = "handleRelationshipUpdate"
  /\ UNCHANGED <<libVars, members, route, clock, submitted>>

\* handleRelationshipUpdate after `await storeFamilyTree(updatedTree)`
UpdateSetFamilyMembers(t) ==
  /\ tasks[t].pc = "setFamilyMembers"
  /\ members' = tasks[t].updatedTree.members
  /\ alert' = "Relationship updated successfully!"
  /\ tasks' = [tasks EXCEPT ![t] = [@ EXCEPT !.pc = "done"]]
  /\ op' = "handleRelationshipUpdate"
  /\ UNCHANGED <<libVars, storage, route, clock, submitted>>

\* a step of one of the calls in flight
UpdateStep ==
  \E t \in 1..Len(tasks) :
    \/ UpdateGetCurrentTree(t)
    \/ UpdateGetFamilyTrees(t)
    \/ UpdateSetItem(t)
    \/ UpdateSetFamilyMembers(t)

NextUpdate == loadFamilyData \/ createConnection \/ UpdateStep

\* connecting members on the Relationships screen
SpecUpdate == InitUpdate /\ [][NextUpdate]_vars

\* the roster holds the edge of the two calls at both members: each of the
\* two members has the relationships its call was given
EdgeAtBoth(allMembers) ==
  \A t \in 1..Len(tasks) :
    Find(allMembers, tasks[t].memberId).relationships = tasks[t].relationships

\* C17: after createConnection's Create and both calls of
\* handleRelationshipUpdate have completed successfully, in whatever order
\* their steps interleaved, the persisted tree and the familyMembers state
\* hold the edge at both members.
C17_BothEndpoints ==
  (Len(tasks) = 2 /\ \A t \in 1..2 : tasks[t].pc = "done") =>
    /\ EdgeAtBoth(members)
    /\ EdgeAtBoth(StoredTree(storage.FAMILY_TREES, storage.CURRENT_TREE.id).members)

\* no member lists an id under two kinds (nobody is, say, spouse and child of
\* the same member)
OneKindEach(allMembers) ==
  \A i \in 1..Len(allMembers) : \A k1 \in Kinds : \A k2 \in Kinds \ {k1} :
    IdsOf(allMembers[i].relationships[k1]) \cap IdsOf(allMembers[i].relationships[k2]) = {}

\* C21: in the tree layout of a well-formed roster, two members that list
\* each other as spouses have nodes of the same generation, also when one of
\* them has no parents and the other stands in a lower row.
C21_SpousesSameRow ==
  (op = "generateTreeLayout" /\ WellFormed(members) /\ OneKindEach(members)) =>
    \A a \in 1..Len(treeNodes) : \A b \in 1..Len(treeNodes) :
      (/\ treeNodes[b].id \in IdsOf(treeNodes[a].member.relationships.spouses)
       /\ treeNodes[a].id \in IdsOf(treeNodes[b].member.relationships.spouses)) =>
        treeNodes[a].generation = treeNodes[b].generation

(***************************************************************************)
(* The generation values proposed to each member: every call of            *)
(* assignGeneration(member, generation, visited), the calls that return at *)
(* the visited test included, noted as the pair <<member.id, generation>>. *)
(***************************************************************************)
NoneProposed == [visited |-> {}, has |-> {}, proposed |-> {}]

RECURSIVE ProposedIn(_, _, _, _)
RECURSIVE ProposedToRelatives(_, _, _, _)

\* the forEach loops of assignGeneration, as AssignRelatives walks them
ProposedToRelatives(todo, i, acc, allMembers) ==
  IF i > Len(todo) THEN acc
  ELSE LET relative == Find(allMembers, todo[i].id)
           after == IF relative # Undefined
                    THEN ProposedIn(relative, todo[i].generation, acc, allMembers)
                    ELSE acc
       IN  ProposedToRelatives(todo, i + 1, after, allMembers)

\* one call of assignGeneration; has is the key set of memberGenerations
ProposedIn(member, generation, acc, allMembers) ==
  LET noted == [acc EXCEPT !.proposed = @ \cup {<<member.id, generation>>}]
  IN  IF member.id \in acc.visited THEN noted
      ELSE ProposedToRelatives(Proposals(member, generation), 1,
                               [noted EXCEPT !.visited = @ \cup {member.id},
                                             !.has = @ \cup {member.id}],
                               allMembers)

\* the loop over the remaining members, as AddRemaining walks it
RECURSIVE ProposedToRemaining(_, _, _)
ProposedToRemaining(i, acc, allMembers) ==
  IF i > Len(allMembers) THEN acc
  ELSE LET member == allMembers[i]
           after == IF member.id \notin acc.has
                    THEN ProposedIn(member, 0, [acc EXCEPT !.visited = {}], allMembers)
                    ELSE acc
       IN  ProposedToRemaining(i + 1, after, allMembers)

\* every pair <<id, generation>> proposed during generateRelationshipMap
Proposed(allMembers, focus) ==
  ProposedToRemaining(1, ProposedIn(focus, 0, NoneProposed, allMembers), allMembers).proposed

\* the generation values proposed for the member with this id
ProposedFor(id, allMembers, focus) ==
  {p[2] : p \in {q \in Proposed(allMembers, focus) : q[1] = id}}

\* the seed of the last generateRelationshipMap call
Seed == IF focusMember # NoFocus THEN focusMember ELSE members[1]

\* C22: in the mapper's layout, when different generation values are proposed
\* for a member along different paths from the seed, the generation of the
\* member's node (its row) is the maximum of the values proposed for it.
C22_MaximumWins ==
  (/\ op = "generateRelationshipMap"
   /\ Len(members) > 0
   /\ WellFormed(members) /\ OneKindEach(members)
   /\ FocusInRoster) =>
    \A n \in 1..Len(nodes) :
      nodes[n].generation = Max(ProposedFor(nodes[n].id, members, Seed))

\* the roster members m lists, under any kind
AllListed(m, allMembers) == UNION {Listed(m, kind, allMembers) : kind \in Kinds}

RECURSIVE Closure(_, _, _)
Closure(S, steps, allMembers) ==
  IF steps = 0 THEN S
  ELSE Closure(S \cup UNION {AllListed(Find(allMembers, x), allMembers) : x \in S},
               steps - 1, allMembers)

\* the ids reachable from member through parent/child/sibling/spouse entries
ReachableFrom(member, allMembers) ==
  {member.id} \cup Closure(AllListed(member, allMembers), Len(allMembers), allMembers)

\* members[i] is reachable neither from the seed nor from a member before it
\* in the roster: the loop over the remaining members starts a traversal at it
OwnRoot(i) ==
  /\ members[i].id \notin ReachableFrom(Seed, members)
  /\ \A j \in 1..(i - 1) : members[i].id \notin ReachableFrom(members[j], members)

\* C23 as stated: the seed gets generation 0 and every member that is not
\* reachable from the seed gets generation 0.
C23_UnreachableAtZero ==
  (/\ op = "generateRelationshipMap"
   /\ Len(members) > 0
   /\ WellFormed(members) /\ OneKindEach(members)
   /\ FocusInRoster) =>
    \A n \in 1..Len(nodes) :
      (nodes[n].id = Seed.id \/ nodes[n].id \notin ReachableFrom(Seed, members)) =>
        nodes[n].generation = 0

\* C23: in the mapper's layout the seed (the focus member, or members[0]
\* without one) has a node of generation 0, and so has every member that is
\* reachable neither from the seed nor from a member before it in the roster;
\* in a well-formed roster these members have no node of another generation.
C23_RootsAtZero ==
  (op = "generateRelationshipMap" /\ Len(members) > 0) =>
    /\ \E n \in 1..Len(nodes) : nodes[n].id = Seed.id /\ nodes[n].generation = 0
    /\ \A i \in 1..Len(members) :
         OwnRoot(i) =>
           \E n \in 1..Len(nodes) : nodes[n].id = members[i].id /\ nodes[n].generation = 0
    /\ (WellFormed(members) /\ FocusInRoster) =>
         \A n \in 1..Len(nodes) :
           (nodes[n].id = Seed.id \/ \E i \in 1..Len(members) :
                                       OwnRoot(i) /\ nodes[n].id = members[i].id) =>
             nodes[n].generation = 0

\* a layout in which a member unreachable from the seed heads a family of its
\* own: it stands at generation 0 and its child one row below
C23_Witness ==
  /\ op = "generateRelationshipMap"
  /\ WellFormed(members) /\ OneKindEach(members)
  /\ FocusInRoster
  /\ \E i \in 1..Len(members) :
       /\ OwnRoot(i)
       /\ \E n \in 1..Len(nodes) : \E c \in 1..Len(nodes) :
            /\ nodes[n].id = members[i].id /\ nodes[n].generation = 0
            /\ nodes[c].id \in IdsOf(members[i].relationships.children)
            /\ nodes[c].generation = -1

(***************************************************************************)
(* The mapper over the same roster in every order of its members           *)
(***************************************************************************)
\* the arrays that hold the members of allMembers in some order
Reordered(allMembers) ==
  LET n == Len(allMembers)
      orders == {f \in [1..n -> 1..n] : \A a, b \in 1..n : f[a] = f[b] => a = b}
  IN  {[i \in 1..n |-> allMembers[f[i]]] : f \in orders}

\* family is a young tree, members the same roster in some order
InitOrder ==
  /\ family \in FoundingRosters
  /\ members \in Reordered(family)
  /\ op = "idle"
  /\ person = Undefined
  /\ relativeTo = Undefined
  /\ label = NoLabel
  /\ allRels = <<>>
  /\ focusMember = NoFocus
  /\ nodes = <<>>
  /\ connections = <<>>
  /\ treeNodes = <<>>
  /\ treeConnections = <<>>
  /\ SysInit

NextOrder == generateRelationshipMap \/ Leave

\* the mapper over a roster passed in any order
SpecOrder == InitOrder /\ [][NextOrder]_vars

\* C24: for a fixed focus member, generateRelationshipMap gives every member
\* the same generation on every permutation of the roster: the nodes laid out
\* for members carry the generations of the layout of family, the same
\* roster in its first order.
C24_OrderIndependent ==
  (/\ op = "generateRelationshipMap"
   /\ WellFormed(members) /\ OneKindEach(members)
   /\ focusMember # NoFocus) =>
    \A n \in 1..Len(nodes) :
      \A k \in 1..Len(GeneratedNodes(family, focusMember)) :
        GeneratedNodes(family, focusMember)[k].id = nodes[n].id =>
          GeneratedNodes(family, focusMember)[k].generation = nodes[n].generation

\* the connections of type 'spouse'
SpouseConnections(conns) == SelectSeq(conns, LAMBDA c : c.type = "spouse")

\* the unordered pairs joined by a spouse connection
SpousePairs(conns) ==
  {{SpouseConnections(conns)[k].from, SpouseConnections(conns)[k].to} :
     k \in 1..Len(SpouseConnections(conns))}

\* no pair is joined by two spouse connections
EachPairOnce(conns) ==
  \A j, k \in 1..Len(SpouseConnections(conns)) :
    {SpouseConnections(conns)[j].from, SpouseConnections(conns)[j].to} =
      {SpouseConnections(conns)[k].from, SpouseConnections(conns)[k].to} => j = k

\* every id in a spouses list is the id of a roster member
SpousesInRoster(allMembers) ==
  \A i \in 1..Len(allMembers) :
    IdsOf(allMembers[i].relationships.spouses) \subseteq RosterIds(allMembers)

\* C25: on a roster with unique ids whose spouse ids all denote roster members,
\* generateTreeLayout (emit when member.id < spouseId) and
\* generateRelationshipMap (emit when the pair has no connection yet) emit
\* spouse connections for the same unordered pairs, each pair once.
C25_SpouseDedupEquivalent ==
  (/\ op = "generateTreeLayout"
   /\ Len(members) > 0
   /\ UniqueIds(members)
   /\ SpousesInRoster(members)) =>
    LET generatedConnections == GeneratedConnections(GeneratedNodes(members, members[1]))
    IN  /\ SpousePairs(treeConnections) = SpousePairs(generatedConnections)
        /\ EachPairOnce(treeConnections)
        /\ EachPairOnce(generatedConnections)

\* the description of the label of relativeTo relative to person: the last
\* call with its two members exchanged
Back == getRelationshipLabel(relativeTo, person, members).description

\* C26: in a well-formed roster the labels of a pair are converse: X relative
\* to Y is 'Parent' iff Y relative to X is 'Child', 'Grandparent' iff the
\* reverse is 'Grandchild', and 'Spouse', 'Sibling' and 'Cousin' are returned
\* for (X, Y) iff they are returned for (Y, X).
C26_ConverseLabels ==
  (/\ op = "getRelationshipLabel"
   /\ WellFormed(members)
   /\ InRoster(person, members) /\ InRoster(relativeTo, members)) =>
    /\ label.description = "Parent" <=> Back = "Child"
    /\ label.description = "Child" <=> Back = "Parent"
    /\ label.description = "Grandparent" <=> Back = "Grandchild"
    /\ label.description = "Grandchild" <=> Back = "Grandparent"
    /\ label.description = "Spouse" <=> Back = "Spouse"
    /\ label.description = "Sibling" <=> Back = "Sibling"
    /\ label.relationship = "Cousin" <=>
         getRelationshipLabel(relativeTo, person, members).relationship = "Cousin"

\* a grandparent labelled relative to its grandchild, the grandchild being a
\* Grandchild the other way round
C26_Witness ==
  /\ op = "getRelationshipLabel"
  /\ WellFormed(members)
  /\ InRoster(person, members) /\ InRoster(relativeTo, members)
  /\ label.description = "Grandparent"
  /\ Back = "Grandchild"

\* C27 as stated: in a well-formed roster X relative to Y is described
\* "Parent's sibling" (aunt or uncle) iff Y relative to X is described
\* "Sibling's child" (nephew or niece).
C27_AuntUncleConverse ==
  (/\ op = "getRelationshipLabel"
   /\ WellFormed(members)
   /\ InRoster(person, members) /\ InRoster(relativeTo, members)) =>
    /\ label.description = "Parent's sibling" <=> Back = "Sibling's child"
    /\ label.description = "Sibling's child" <=> Back = "Parent's sibling"

\* an uncle labelled relative to his niece or nephew, who is a
\* Nephew/Niece the other way round
C27_Witness ==
  /\ op = "getRelationshipLabel"
  /\ WellFormed(members)
  /\ InRoster(person, members) /\ InRoster(relativeTo, members)
  /\ label.relationship = "Uncle"
  /\ Back = "Sibling's child"

\* C27: in a well-formed roster, if Y relative to X is described "Sibling's
\* child" then X relative to Y is described "Parent's sibling"; if X relative
\* to Y is described "Parent's sibling" then Y relative to X is described
\* "Sibling's child", unless a parent of X lists Y as a sibling too, in which
\* case Y relative to X is described "Parent's sibling" as well.
C27_AuntUncleOneWay ==
  (/\ op = "getRelationshipLabel"
   /\ WellFormed(members)
   /\ InRoster(person, members) /\ InRoster(relativeTo, members)) =>
    /\ Back = "Sibling's child" => label.description = "Parent's sibling"
    /\ label.description = "Parent's sibling" =>
         Back = IF TwoHops(relativeTo, person, "parents", "siblings", members)
                THEN "Parent's sibling" ELSE "Sibling's child"

\* the ids of the nodes of a layout
NodeIds(layoutNodes) == {layoutNodes[k].id : k \in 1..Len(layoutNodes)}

\* C28: every connection generateTreeLayout emits has its from and its to id
\* among the ids of the emitted nodes, on a well-formed roster and on one from
\* which a member was deleted while the others still list its id.
C28_ConnectionsHaveNodes ==
  (/\ op = "generateTreeLayout"
   /\ WellFormed(family)
   /\ members \in {family, deleteFamilyMember(family, NumMembers)}) =>
    \A c \in 1..Len(treeConnections) :
      /\ treeConnections[c].from \in NodeIds(treeNodes)
      /\ treeConnections[c].to \in NodeIds(treeNodes)

\* C29: when storeFamilyTree throws in both calls of handleRelationshipUpdate
\* after the user confirmed createConnection, the members held in the
\* familyMembers state have the relationship lists they had before the
\* confirmation, those of the current tree the screen had loaded.
C29_FailedUpdateNoChange ==
  (Len(tasks) = 2 /\ \A t \in 1..2 : tasks[t].pc = "failed") =>
    \A k \in 1..Len(members) :
      members[k].relationships =
        Find(storage.CURRENT_TREE.members, members[k].id).relationships

(***************************************************************************)
(* utils/exportService: ExportService.generateTreeLayout, step by step.    *)
(* generateTreeBranch calls itself for every member that lists the branch  *)
(* member as a parent; the calls in progress are the frames of run.stack,  *)
(* and the engine raises a RangeError when the call stack is full.         *)
(***************************************************************************)
\* the frames the call stack holds
MaxCallStack == 6

\* allMembers.filter(m => m.relationships.parents.includes(member.id))
ChildrenOf(member, allMembers) ==
  SelectSeq(allMembers, LAMBDA m : Includes(m.relationships.parents, member.id))

\* a call generateTreeBranch(member, allMembers, options, level) at the start
\* of its children.map
Branch(member, level, allMembers) ==
  [member |-> member, level |-> level, children |-> ChildrenOf(member, allMembers), next |-> 1]

\* the roster the export is asked for
InitExport ==
  /\ family \in FoundingRosters
  /\ members = family
  /\ op = "idle"
  /\ person = Undefined
  /\ relativeTo = Undefined
  /\ label = NoLabel
  /\ allRels = <<>>
  /\ focusMember = NoFocus
  /\ nodes = <<>>
  /\ connections = <<>>
  /\ treeNodes = <<>>
  /\ treeConnections = <<>>
  /\ SysInit

\* ExportService.generateTreeLayout is called: rootMembers is computed
EnterExportTreeLayout ==
  /\ op = "idle"
  /\ run = NotRunning
  /\ run' = [pc |-> "rootMembers.map",
             rootMembers |-> SelectSeq(members, LAMBDA m : Len(m.relationships.parents) = 0),
             next |-> 1, stack |-> <<>>, cards |-> <<>>]
  /\ op' = "exportTreeLayout"
  /\ UNCHANGED <<appVars, family, members, kinVars, mapVars, treeVars>>

\* the call generateTreeBranch(member, .., level) is made, or fails for want
\* of stack
CallBranch(member, level, caller) ==
  IF Len(caller.stack) >= MaxCallStack
  THEN [caller EXCEPT !.pc = "RangeError"]
  ELSE [caller EXCEPT !.stack = Append(@, Branch(member, level, members)),
                      !.cards = Append(@, member.id)]

\* one step of the export: the next root's branch is called; or the branch on
\* top of the stack calls the branch of its next child, or returns
ExportBranchStep ==
  /\ op = "exportTreeLayout"
  /\ run.pc = "rootMembers.map"
  /\ IF run.stack = <<>>
     THEN /\ run.next <= Len(run.rootMembers)
          /\ run' = CallBranch(run.rootMembers[run.next], 0, [run EXCEPT !.next = @ + 1])
     ELSE LET depth == Len(run.stack)
              top == run.stack[depth]
          IN  IF top.next <= Len(top.children)
              THEN run' = CallBranch(top.children[top.next], top.level + 1,
                                     [run EXCEPT !.stack[depth].next = @ + 1])
              ELSE run' = [run EXCEPT !.stack = SubSeq(@, 1, depth - 1)]
  /\ UNCHANGED <<appVars, family, members, op, kinVars, mapVars, treeVars>>

\* every root's branch has returned: the layout is returned
ReturnExportTreeLayout ==
  /\ op = "exportTreeLayout"
  /\ run.pc = "rootMembers.map"
  /\ run.stack = <<>>
  /\ run.next > Len(run.rootMembers)
  /\ run' = [run EXCEPT !.pc = "returned"]
  /\ UNCHANGED <<appVars, family, members, op, kinVars, mapVars, treeVars>>

NextExport == EnterExportTreeLayout \/ ExportBranchStep \/ ReturnExportTreeLayout

\* the export's tree layout over a young tree
SpecExport == InitExport /\ [][NextExport]_vars

\* C30: ExportService.generateTreeLayout finishes for every roster, also for
\* one with a parent-edge cycle reachable from a parentless member: the
\* recursion of generateTreeBranch never nests deeper than the roster has
\* members and never ends in a RangeError.
C30_ExportTerminates ==
  op = "exportTreeLayout" =>
    /\ run.pc # "RangeError"
    /\ Len(run.stack) <= Len(members)
====
